---- MODULE Spec2Model ----
(***************************************************************************)
(* A model of the 2D continuous collision engine of doomclone/app.rs       *)
(* (modules saga_collision and saga_utils).                                *)
(*                                                                         *)
(* Numbers.  The program computes in f32.  The model computes in exact     *)
(* arithmetic: every scalar is an element (n + k*sqrt(d)) / m of a real    *)
(* quadratic field, with n, k integers, d a square-free natural and m a    *)
(* positive natural.  Inputs are rationals (k = 0); the only irrational    *)
(* values arise from the one sqrt of solve_quadratic and the one sqrt of   *)
(* penetration_time_point_line.  Sums, products, quotients, comparisons    *)
(* and square roots are computed exactly, so a comparison in the model     *)
(* agrees with the comparison of the real numbers the f32 values           *)
(* approximate.  Rounding error is not modelled.                           *)
(***************************************************************************)
EXTENDS Integers, Sequences, FiniteSets, TLC

(***************************************************************************)
(* Integer helpers                                                         *)
(***************************************************************************)
Abs(i) == IF i < 0 THEN -i ELSE i

Sgn(i) == IF i < 0 THEN -1 ELSE IF i > 0 THEN 1 ELSE 0

RECURSIVE Gcd(_, _)
Gcd(i, j) == IF j = 0 THEN i ELSE Gcd(j, i % j)

\* floor of the square root of a natural, by Newton's iteration
RECURSIVE ISqrtFrom(_, _)
ISqrtFrom(i, x) ==
    LET y == (x + i \div x) \div 2
    IN  IF y >= x THEN x ELSE ISqrtFrom(i, y)

ISqrt(i) == IF i < 2 THEN i ELSE ISqrtFrom(i, i)

\* s times the root r of i when i = r*r, else s
SquarePartOf(r, i, s) == IF r * r = i THEN s * r ELSE s

\* the largest s with s*s dividing i (i > 0): s collects the squares of the
\* factors up to the cube root, what is left is a square or square-free
RECURSIVE SquarePartFrom(_, _, _)
SquarePartFrom(i, p, s) ==
    IF p * p > i \div p
    THEN SquarePartOf(ISqrt(i), i, s)
    ELSE IF i % (p * p) = 0 THEN SquarePartFrom(i \div (p * p), p, s * p)
    ELSE IF i % p = 0 THEN SquarePartFrom(i \div p, p + 1, s)
    ELSE SquarePartFrom(i, p + 1, s)

SquarePart(i) == SquarePartFrom(i, 2, 1)

(***************************************************************************)
(* f32 scalars as exact numbers (n + k*sqrt(d)) / m                        *)
(***************************************************************************)
NormBy(g, n, k, d, m) == [n |-> n \div g, k |-> k \div g, d |-> d, m |-> m \div g]

Norm(n, k, d, m) ==
    NormBy(Gcd(Gcd(Abs(n), Abs(k)), m), n, k, IF k = 0 THEN 0 ELSE d, m)

Rat(n, m) == Norm(IF m < 0 THEN -n ELSE n, 0, 0, IF m < 0 THEN -m ELSE m)

Whole(i) == [n |-> i, k |-> 0, d |-> 0, m |-> 1]

Zero == [n |-> 0, k |-> 0, d |-> 0, m |-> 1]

One == [n |-> 1, k |-> 0, d |-> 0, m |-> 1]

IsRational(x) == x.k = 0

\* the radicand two operands share; operands of one computation never mix
\* two different radicands
Radicand(x, y) == IF x.k # 0 THEN x.d ELSE y.d

SameField(x, y) == x.k = 0 \/ y.k = 0 \/ x.d = y.d

\* sign of n + k*sqrt(d), for n and k without a common factor
SurdSignReduced(n, k, d) ==
    IF k = 0 \/ d = 0 THEN Sgn(n)
    ELSE IF n = 0 THEN Sgn(k)
    ELSE IF (n < 0) = (k < 0) THEN Sgn(n)
    ELSE IF n * n > k * k * d THEN Sgn(n)
    ELSE IF n * n < k * k * d THEN Sgn(k)
    ELSE 0

SurdSignBy(g, n, k, d) ==
    IF g = 0 THEN 0 ELSE SurdSignReduced(n \div g, k \div g, d)

\* sign of n + k*sqrt(d)
SurdSign(n, k, d) == SurdSignBy(Gcd(Abs(n), Abs(k)), n, k, d)

Sign(x) == SurdSign(x.n, x.k, x.d)

Neg(x) == [x EXCEPT !.n = -x.n, !.k = -x.k]

\* x + y over the common denominator x.m * y.m / g, g the gcd of x.m, y.m
AddBy(g, x, y) ==
    Norm(x.n * (y.m \div g) + y.n * (x.m \div g),
         x.k * (y.m \div g) + y.k * (x.m \div g),
         IF x.k # 0 THEN x.d ELSE y.d, (x.m \div g) * y.m)

Add(x, y) ==
    IF SameField(x, y) THEN AddBy(Gcd(x.m, y.m), x, y)
    ELSE CHOOSE z \in {} : TRUE

Sub(x, y) == Add(x, [y EXCEPT !.n = -y.n, !.k = -y.k])

\* x * y with the numerators of x reduced by g1 against y.m and those of y
\* by g2 against x.m
MulBy(g1, g2, d, x, y) ==
    Norm((x.n \div g1) * (y.n \div g2) + (x.k \div g1) * (y.k \div g2) * d,
         (x.n \div g1) * (y.k \div g2) + (x.k \div g1) * (y.n \div g2), d,
         (x.m \div g2) * (y.m \div g1))

Mul(x, y) ==
    IF SameField(x, y)
    THEN MulBy(Gcd(Gcd(Abs(x.n), Abs(x.k)), y.m), Gcd(Gcd(Abs(y.n), Abs(y.k)), x.m),
               IF x.k # 0 THEN x.d ELSE y.d, x, y)
    ELSE CHOOSE z \in {} : TRUE

\* x / y for a rational y # 0
Div(x, y) ==
    IF y.k = 0 /\ y.n # 0
    THEN Mul(x, [n |-> IF y.n < 0 THEN -y.m ELSE y.m, k |-> 0, d |-> 0,
                 m |-> IF y.n < 0 THEN -y.n ELSE y.n])
    ELSE CHOOSE z \in {} : TRUE

\* the sign of u + v, from the signs sx of u and sy of v and the sign s of
\* u*u - v*v
SignOfSum(sx, sy, s) ==
    IF sx = 0 THEN sy
    ELSE IF sy = 0 THEN sx
    ELSE IF sx = sy THEN sx
    ELSE IF sx > 0 THEN s ELSE -s

Sign3Reduced(a, b, d1, c, d2) ==
    SignOfSum(SurdSignReduced(a, b, d1),
              IF d2 = 0 THEN 0 ELSE Sgn(c),
              SurdSign(a * a + b * b * d1 - c * c * d2, 2 * a * b, d1))

Sign3By(g, a, b, d1, c, d2) ==
    IF g = 0 THEN 0 ELSE Sign3Reduced(a \div g, b \div g, d1, c \div g, d2)

\* sign of a + b*sqrt(d1) + c*sqrt(d2)
Sign3(a, b, d1, c, d2) == Sign3By(Gcd(Gcd(Abs(a), Abs(b)), Abs(c)), a, b, d1, c, d2)

CmpBy(g, x, y) ==
    Sign3(x.n * (y.m \div g) - y.n * (x.m \div g), x.k * (y.m \div g), x.d,
          -(y.k * (x.m \div g)), y.d)

\* -1, 0, 1 as x < y, x = y, x > y (f32 partial_cmp; no NaN arises)
Cmp(x, y) ==
    IF SameField(x, y) THEN Sign(Sub(x, y)) ELSE CmpBy(Gcd(x.m, y.m), x, y)

Lt(x, y) == Cmp(x, y) < 0

Le(x, y) == Cmp(x, y) <= 0

Gt(x, y) == Cmp(x, y) > 0

Ge(x, y) == Cmp(x, y) >= 0

Eq(x, y) == Cmp(x, y) = 0

\* the root of n / m from sn, sm, the square parts of n and m: with
\* n = sn^2 * dn and m = sm^2 * dm it is sn * sqrt(dn * dm) / (sm * dm)
SqrtBy(sn, sm, n, m) ==
    IF (n \div (sn * sn)) * (m \div (sm * sm)) = 1 THEN Norm(sn, 0, 0, sm)
    ELSE Norm(0, sn, (n \div (sn * sn)) * (m \div (sm * sm)), sm * (m \div (sm * sm)))

\* f32::sqrt of a rational x >= 0
Sqrt(x) ==
    IF x.n = 0 THEN x ELSE SqrtBy(SquarePart(x.n), SquarePart(x.m), x.n, x.m)

(***************************************************************************)
(* cgmath::Vector2<f32>                                                    *)
(***************************************************************************)
Vec(x, y) == [x |-> x, y |-> y]

vec2(i, j) == Vec(Whole(i), Whole(j))

VZero == Vec(Zero, Zero)

VAdd(u, v) == Vec(Add(u.x, v.x), Add(u.y, v.y))

VSub(u, v) == Vec(Sub(u.x, v.x), Sub(u.y, v.y))

VNeg(u) == Vec(Neg(u.x), Neg(u.y))

VScale(s, u) == Vec(Mul(s, u.x), Mul(s, u.y))

VDiv(u, s) == Vec(Div(u.x, s), Div(u.y, s))

dot(u, v) == Add(Mul(u.x, v.x), Mul(u.y, v.y))

magnitude2(u) == dot(u, u)

is_zero(u) == Sign(u.x) = 0 /\ Sign(u.y) = 0

VEq(u, v) == Eq(u.x, v.x) /\ Eq(u.y, v.y)

(***************************************************************************)
(* saga_utils                                                              *)
(***************************************************************************)
cross_2d(u, v) == Sub(Mul(u.x, v.y), Mul(u.y, v.x))

\* Result<Vec<f32>>: Err(..) is [ok |-> FALSE], Ok(v) is [ok |-> TRUE, roots |-> v]
Err == [ok |-> FALSE, roots |-> <<>>]

Ok(v) == [ok |-> TRUE, roots |-> v]

\* the two candidate roots, from the root sd of the discriminant
two_roots(a, b, sd) ==
    <<Div(Sub(Neg(b), sd), Mul(Whole(2), a)), Div(Add(Neg(b), sd), Mul(Whole(2), a))>>

\* if c1 > c2 { swap(c1, c2) }
ascending(roots) ==
    IF Gt(roots[1], roots[2]) THEN <<roots[2], roots[1]>> ELSE roots

\* a mutant of solve_quadratic: the roots are not swapped into ascending order
solve_quadratic_unordered(a, b, c) ==
    IF Sign(a) = 0 /\ Sign(b) = 0 /\ Sign(c) = 0 THEN Err
    ELSE IF Sign(a) = 0 /\ Sign(b) = 0 THEN Ok(<<>>)
    ELSE IF Sign(a) = 0 THEN Ok(<<Div(Neg(c), b)>>)
    ELSE LET with_discriminant(d) ==
                 IF Sign(d) < 0 THEN Ok(<<>>)
                 ELSE IF Sign(d) = 0 THEN Ok(<<Div(Neg(b), Mul(Whole(2), a))>>)
                 ELSE Ok(two_roots(a, b, Sqrt(d)))
         IN  with_discriminant(Sub(Mul(b, b), Mul(Mul(Whole(4), a), c)))

solve_quadratic(a, b, c) ==
    IF Sign(a) = 0 /\ Sign(b) = 0 /\ Sign(c) = 0 THEN Err
    ELSE IF Sign(a) = 0 /\ Sign(b) = 0 THEN Ok(<<>>)
    ELSE IF Sign(a) = 0 THEN Ok(<<Div(Neg(c), b)>>)
    ELSE LET with_discriminant(d) ==
                 IF Sign(d) < 0 THEN Ok(<<>>)
                 ELSE IF Sign(d) = 0 THEN Ok(<<Div(Neg(b), Mul(Whole(2), a))>>)
                 ELSE Ok(ascending(two_roots(a, b, Sqrt(d))))
         IN  with_discriminant(Sub(Mul(b, b), Mul(Mul(Whole(4), a), c)))

(***************************************************************************)
(* saga_collision: shapes                                                  *)
(***************************************************************************)
\* Option<f32>: None is <<>>, Some(t) is <<t>>
None == <<>>

Some(t) == <<t>>

Circle(position, radius) == [position |-> position, radius |-> radius]

\* LineSegment(a, b): field a is .0 and field b is .1
LineSegment(a, b) == [a |-> a, b |-> b]

direction_of(seg) == VSub(seg.b, seg.a)

len2(seg) == magnitude2(direction_of(seg))

get_projection(a, b) ==
    IF is_zero(b) THEN VZero
    ELSE VDiv(VScale(dot(a, b), b), magnitude2(b))

get_perpendicular(a, b) == VSub(a, get_projection(a, b))

circle_get_normal_scaled(circle, position) == VSub(position, circle.position)

line_get_normal_scaled(seg, position) ==
    get_perpendicular(VSub(position, seg.a), direction_of(seg))

is_point_in_band(seg, point) ==
    Sign(dot(VSub(point, seg.a), VSub(point, seg.b))) <= 0

is_point_on_line(seg, point) ==
    LET a_b_collinear(a, b) == VEq(VScale(magnitude2(b), a), VScale(dot(a, b), b))
    IN  a_b_collinear(VSub(point, seg.a), direction_of(seg))

(***************************************************************************)
(* saga_collision: penetration-time primitives                             *)
(***************************************************************************)
\* iter().cloned().find(|&t| t >= 0.0)
RECURSIVE find_non_negative(_, _)
find_non_negative(roots, i) ==
    IF i > Len(roots) THEN None
    ELSE IF Sign(roots[i]) >= 0 THEN Some(roots[i])
    ELSE find_non_negative(roots, i + 1)

\* the quadratic of a circle swept along direction against a point:
\* |circle_to_point - t * direction|^2 = radius^2
circle_point_quadratic(circle, direction, circle_to_point) ==
    solve_quadratic(
        dot(direction, direction),
        Mul(Whole(-2), dot(direction, circle_to_point)),
        Sub(dot(circle_to_point, circle_to_point), Mul(circle.radius, circle.radius)))

\* a mutant of circle_point_time: the overlap is not clamped to time 0 and
\* the first root is returned whatever its sign
circle_point_first(quadratic_solutions) ==
    IF quadratic_solutions.ok /\ Len(quadratic_solutions.roots) > 0
    THEN Some(quadratic_solutions.roots[1])
    ELSE None

\* the match on quadratic_solutions of penetration_time_circle_point
circle_point_time(quadratic_solutions) ==
    IF quadratic_solutions.ok
    THEN IF /\ Len(quadratic_solutions.roots) = 2
            /\ Sign(quadratic_solutions.roots[1]) < 0
            /\ Sign(quadratic_solutions.roots[2]) >= 0
         THEN Some(Zero)
         ELSE find_non_negative(quadratic_solutions.roots, 1)
    ELSE None

\* a mutant of penetration_time_circle_point: the early-out is dropped
circle_point_no_early_out(circle, point, direction) ==
    circle_point_time(
        circle_point_quadratic(circle, direction, VSub(point, circle.position)))

\* a mutant of penetration_time_circle_point: the overlap is not clamped to
\* time 0 and the first root is returned whatever its sign
circle_point_first_root(circle, point, direction) ==
    IF Sign(dot(VNeg(VSub(point, circle.position)), direction)) >= 0 THEN None
    ELSE circle_point_first(
             circle_point_quadratic(circle, direction, VSub(point, circle.position)))

\* a mutant of penetration_time_circle_point: an overlap is reported before
\* the direction is looked at
circle_point_overlap_first(circle, point, direction) ==
    IF Sign(Sub(magnitude2(VSub(point, circle.position)),
                Mul(circle.radius, circle.radius))) < 0
    THEN Some(Zero)
    ELSE circle_point_time(
             circle_point_quadratic(circle, direction, VSub(point, circle.position)))

\* a variant of penetration_time_circle_point whose early-out lets a
\* tangential direction pass
circle_point_tangent_passes(circle, point, direction) ==
    IF Sign(dot(VNeg(VSub(point, circle.position)), direction)) > 0 THEN None
    ELSE circle_point_time(
             circle_point_quadratic(circle, direction, VSub(point, circle.position)))

penetration_time_circle_point(circle, point, direction) ==
    IF Sign(dot(VNeg(VSub(point, circle.position)), direction)) >= 0 THEN None
    ELSE circle_point_time(
             circle_point_quadratic(circle, direction, VSub(point, circle.position)))

\* a variant of penetration_time_point_circle that keeps the direction
point_circle_same_direction(point, circle, direction) ==
    penetration_time_circle_point(circle, point, direction)

\* a variant of penetration_time_circle_circle: the moving circle keeps its
\* own radius
circle_circle_own_radius(moving_circle, direction, stationary_circle) ==
    penetration_time_circle_point(moving_circle, stationary_circle.position, direction)

penetration_time_point_circle(point, circle, direction) ==
    penetration_time_circle_point(circle, point, VNeg(direction))

penetration_time_circle_circle(moving_circle, direction, stationary_circle) ==
    penetration_time_circle_point(
        Circle(moving_circle.position, Add(moving_circle.radius, stationary_circle.radius)),
        stationary_circle.position,
        direction)

\* a variant of point_line_at that does not look at the band
point_line_unbounded(point, line_segment, direction, t) == Some(t)

\* the end of penetration_time_point_line, from the time t
point_line_at(point, line_segment, direction, t) ==
    IF is_point_in_band(line_segment, VAdd(point, VScale(t, direction))) THEN Some(t)
    ELSE None

\* penetration_time_point_line from normal_scaled on
point_line_from(point, line_segment, direction, normal_scaled) ==
    IF is_point_on_line(line_segment, point)
    THEN IF is_point_in_band(line_segment, point) THEN Some(Zero) ELSE None
    ELSE IF Sign(dot(normal_scaled, direction)) >= 0 THEN None
    ELSE point_line_at(
             point, line_segment, direction,
             Sqrt(Div(magnitude2(get_projection(VSub(point, line_segment.a),
                                                normal_scaled)),
                      magnitude2(get_projection(direction, normal_scaled)))))

penetration_time_point_line(point, line_segment, direction) ==
    point_line_from(point, line_segment, direction,
                    line_get_normal_scaled(line_segment, point))

\* the range test of projection_onto_line
projects_within(projection_onto_line, line_segment) ==
    Sign(projection_onto_line) >= 0 /\ Le(projection_onto_line, len2(line_segment))

\* a mutant of line_intersects_cylinder_segment: the upper end of the
\* segment is not checked
line_intersects_cylinder_ray(circle, line_segment, direction, t) ==
    Sign(dot(VSub(VAdd(VScale(t, direction), circle.position), line_segment.a),
             direction_of(line_segment))) >= 0

\* line_intersects_cylinder_segment for the root t of the loop body
line_intersects_cylinder_segment(circle, line_segment, direction, t) ==
    projects_within(
        dot(VSub(VAdd(VScale(t, direction), circle.position), line_segment.a),
            direction_of(line_segment)),
        line_segment)

\* candidate_t after the loop: the first root that is non-negative and valid
RECURSIVE candidate_from(_, _, _, _, _)
candidate_from(circle, line_segment, direction, roots, i) ==
    IF i > Len(roots) THEN None
    ELSE IF line_intersects_cylinder_segment(circle, line_segment, direction, roots[i])
            /\ Sign(roots[i]) >= 0
    THEN Some(roots[i])
    ELSE candidate_from(circle, line_segment, direction, roots, i + 1)

\* the quadratic of the cylinder intersection, from the cross products
cylinder_quadratic(circle, line_segment, badc, acdc) ==
    solve_quadratic(
        Mul(badc, badc),
        Mul(Mul(Whole(2), badc), acdc),
        Sub(Mul(acdc, acdc), Mul(Mul(circle.radius, circle.radius), len2(line_segment))))

\* the match on solutions of penetration_time_circle_line
circle_line_time(circle, line_segment, direction, solutions) ==
    IF solutions.ok
    THEN IF /\ \E i \in 1..Len(solutions.roots) : Sign(solutions.roots[i]) < 0
            /\ \E i \in 1..Len(solutions.roots) : Sign(solutions.roots[i]) >= 0
            /\ Len(solutions.roots) > 0
            /\ line_intersects_cylinder_segment(circle, line_segment, direction,
                                                solutions.roots[1])
         THEN Some(Zero)
         ELSE candidate_from(circle, line_segment, direction, solutions.roots, 1)
    ELSE None

penetration_time_circle_line(circle, line_segment, direction) ==
    IF is_zero(direction) THEN None
    ELSE IF Sign(dot(line_get_normal_scaled(line_segment, circle.position),
                     direction)) >= 0
    THEN None
    ELSE circle_line_time(
             circle, line_segment, direction,
             cylinder_quadratic(
                 circle, line_segment,
                 cross_2d(VSub(VAdd(direction, circle.position), circle.position),
                          direction_of(line_segment)),
                 cross_2d(VSub(circle.position, line_segment.a),
                          direction_of(line_segment))))

(***************************************************************************)
(* saga_collision: the resolution loop                                     *)
(***************************************************************************)
\* cgmath::Vector3<f32>, the Position component
vec3(x, y, z) == [x |-> x, y |-> y, z |-> z]

\* Vector3::xz()
xz(p) == Vec(p.x, p.z)

\* enum Collision
CollisionNone ==
    [kind |-> "None", circle |-> Circle(VZero, Zero),
     line_segment |-> LineSegment(VZero, VZero), point |-> VZero]

WithCircle(circle) == [CollisionNone EXCEPT !.kind = "WithCircle", !.circle = circle]

WithLineSegment(seg) ==
    [CollisionNone EXCEPT !.kind = "WithLineSegment", !.line_segment = seg]

WithPoint(point) == [CollisionNone EXCEPT !.kind = "WithPoint", !.point = point]

\* Option<(f32, Collision)> of one test
Candidate(penetration_time, collision) ==
    IF penetration_time = None THEN <<>>
    ELSE << <<penetration_time[1], collision>> >>

\* Iterator::min_by(sort_result) over a non-empty sequence of pairs whose
\* first component is the time: the first of the minimal elements
RECURSIVE min_by_from(_, _, _)
min_by_from(items, i, best) ==
    IF i > Len(items) THEN best
    ELSE IF Lt(items[i][1], best[1]) THEN min_by_from(items, i + 1, items[i])
    ELSE min_by_from(items, i + 1, best)

\* a mutant of min_by: the last of the minimal elements
min_by_last(items) ==
    LET RECURSIVE last_from(_, _)
        last_from(i, best) ==
            IF i > Len(items) THEN best
            ELSE IF Le(items[i][1], best[1]) THEN last_from(i + 1, items[i])
            ELSE last_from(i + 1, best)
    IN  IF items = <<>> THEN <<>> ELSE <<last_from(2, items[1])>>

\* Option of the minimum: <<>> for an empty sequence
min_by(items) ==
    IF items = <<>> THEN <<>> ELSE <<min_by_from(items, 2, items[1])>>

\* the three tests of one segment, in the order of the array
segment_candidates(circle_bound, direction, segment) ==
    LET circle_line_penetration ==
            Candidate(penetration_time_circle_line(circle_bound, segment, direction),
                      WithLineSegment(segment))
        circle_first_point_penetration ==
            Candidate(penetration_time_circle_point(circle_bound, segment.a, direction),
                      WithPoint(segment.a))
        \* the source tests segment.0 here as well
        circle_second_point_penetration ==
            Candidate(penetration_time_circle_point(circle_bound, segment.a, direction),
                      WithPoint(segment.a))
    IN  circle_line_penetration \o circle_first_point_penetration
            \o circle_second_point_penetration

RECURSIVE mesh_candidates(_, _, _, _)
mesh_candidates(circle_bound, direction, lines, i) ==
    IF i > Len(lines) THEN <<>>
    ELSE segment_candidates(circle_bound, direction, lines[i])
            \o mesh_candidates(circle_bound, direction, lines, i + 1)

\* per static object the minimum over its segments, objects in query order
RECURSIVE collisions_with_static_objects(_, _, _, _)
collisions_with_static_objects(circle_bound, direction, static_objects, i) ==
    IF i > Len(static_objects) THEN <<>>
    ELSE min_by(mesh_candidates(circle_bound, direction, static_objects[i].lines, 1))
            \o collisions_with_static_objects(circle_bound, direction, static_objects, i + 1)

\* a variant of collisions_with_dynamic_objects that tests every movable,
\* the one at movable_index as well
RECURSIVE collisions_with_all_dynamic_objects(_, _, _, _, _)
collisions_with_all_dynamic_objects(movable_index, circle_bound, direction, movables, i) ==
    IF i > Len(movables) THEN <<>>
    ELSE Candidate(penetration_time_circle_circle(
                       circle_bound, direction,
                       Circle(xz(movables[i].position), movables[i].radius)),
                   WithCircle(Circle(xz(movables[i].position), movables[i].radius)))
            \o collisions_with_all_dynamic_objects(
                   movable_index, circle_bound, direction, movables, i + 1)

RECURSIVE collisions_with_dynamic_objects(_, _, _, _, _)
collisions_with_dynamic_objects(movable_index, circle_bound, direction, movables, i) ==
    IF i > Len(movables) THEN <<>>
    ELSE LET other_circle_bound == Circle(xz(movables[i].position), movables[i].radius)
             penetration_time ==
                 penetration_time_circle_circle(circle_bound, direction, other_circle_bound)
             rest == collisions_with_dynamic_objects(
                         movable_index, circle_bound, direction, movables, i + 1)
         IN  IF movable_index = i THEN rest
             ELSE Candidate(penetration_time, WithCircle(other_circle_bound)) \o rest

\* the outcome of a panic where a (f32, Collision) is expected
Panicked == <<Zero, [CollisionNone EXCEPT !.kind = "panic"]>>

\* Option::unwrap
unwrap(option) == IF option = <<>> THEN Panicked ELSE option[1]

\* a variant of get_first_collision without the (1.0, Collision::None) that
\* ends the chain
get_first_collision_no_fallback(movable_index, circle_bound, direction, movables, static_objects) ==
    unwrap(min_by(
        collisions_with_static_objects(circle_bound, direction, static_objects, 1)
        \o collisions_with_dynamic_objects(movable_index, circle_bound, direction,
                                           movables, 1)))

get_first_collision(movable_index, circle_bound, direction, movables, static_objects) ==
    unwrap(min_by(
        collisions_with_static_objects(circle_bound, direction, static_objects, 1)
        \o collisions_with_dynamic_objects(movable_index, circle_bound, direction,
                                           movables, 1)
        \o << <<One, CollisionNone>> >>))

MAX_TRANSLATIONS == 5

\* 1 / MINIMUM_TRANSLATION_DISTANCE (the distance is 0.0001)
MINIMUM_TRANSLATION_DENOM == 10000

\* a variant of below_minimum_translation: no movement is too small
never_below(movement) == FALSE

\* movement.magnitude2() < MINIMUM_TRANSLATION_DISTANCE^2, for a rational
\* movement, without forming the product of numerator and 10^8
below_minimum_translation(movement) ==
    LET below(m2) ==
            \/ m2.n <= 0
            \/ MINIMUM_TRANSLATION_DENOM * MINIMUM_TRANSLATION_DENOM
                   <= (m2.m - 1) \div m2.n
    IN  below(magnitude2(movement))

\* a variant of scaled_normal_of that takes the wall's direction as the
\* normal of a contact with its face
scaled_normal_along(collision_object, position_2d) ==
    IF collision_object.kind = "None" THEN VZero
    ELSE IF collision_object.kind = "WithCircle"
    THEN circle_get_normal_scaled(collision_object.circle, position_2d)
    ELSE IF collision_object.kind = "WithLineSegment"
    THEN direction_of(collision_object.line_segment)
    ELSE VSub(position_2d, collision_object.point)

scaled_normal_of(collision_object, position_2d) ==
    IF collision_object.kind = "None" THEN VZero
    ELSE IF collision_object.kind = "WithCircle"
    THEN circle_get_normal_scaled(collision_object.circle, position_2d)
    ELSE IF collision_object.kind = "WithLineSegment"
    THEN line_get_normal_scaled(collision_object.line_segment, position_2d)
    ELSE VSub(position_2d, collision_object.point)

\* The exact arithmetic of the model carries a sub-step whose time of impact
\* is rational and whose position and movement stay on a grid of fractions
\* with denominators up to MaxDenominator.
MaxDenominator == 50

OnGrid(x) == IsRational(x) /\ x.m <= MaxDenominator

Representable(st) ==
    /\ st.exact
    /\ OnGrid(st.position.x) /\ OnGrid(st.position.z)
    /\ OnGrid(st.movement.x) /\ OnGrid(st.movement.y)

\* a variant of advance that adds the movement to all three components
advance_lifted(position, movement, collision_time) ==
    vec3(Add(position.x, Mul(movement.x, collision_time)),
         Add(position.y, Mul(movement.y, collision_time)),
         Add(position.z, Mul(movement.y, collision_time)))

\* position.0 += cgmath::vec3(movement.x, 0.0, movement.y) * collision_time
advance(position, movement, collision_time) ==
    vec3(Add(position.x, Mul(movement.x, collision_time)),
         Add(position.y, Mul(Zero, collision_time)),
         Add(position.z, Mul(movement.y, collision_time)))

\* what one pass of the loop body did: the query it made (circle, direction)
\* from the position the entity had, the result (time, collision), the
\* position reached, the normal taken there, and the movement and velocity
\* before (remaining, velocity) and after the two get_perpendicular
SubStep(query, st, position, movement, scaled_normal, slid) ==
    [circle |-> query.circle, direction |-> st.movement, position |-> st.position,
     time |-> query.time, collision |-> query.collision,
     reached |-> position, scaled_normal |-> scaled_normal,
     remaining |-> movement, velocity |-> st.tracked_velocity,
     movement |-> slid.movement, tracked_velocity |-> slid.tracked_velocity]

\* the state after the two get_perpendicular, slid
slid_state(query, st, position, movement, scaled_normal, slid) ==
    [position |-> position,
     movement |-> slid.movement,
     tracked_velocity |-> slid.tracked_velocity,
     queries |-> Append(st.queries,
                        SubStep(query, st, position, movement, scaled_normal, slid)),
     exact |-> TRUE]

\* a variant of slide that projects the movement only
slide_movement_only(query, st, position, movement, scaled_normal) ==
    slid_state(query, st, position, movement, scaled_normal,
               [movement |-> get_perpendicular(movement, scaled_normal),
                tracked_velocity |-> st.tracked_velocity])

\* the two get_perpendicular that end the loop body
slide(query, st, position, movement, scaled_normal) ==
    slid_state(query, st, position, movement, scaled_normal,
               [movement |-> get_perpendicular(movement, scaled_normal),
                tracked_velocity |-> get_perpendicular(st.tracked_velocity,
                                                       scaled_normal)])

\* the loop body from the position reached at collision_time on
sub_step(query, st, position) ==
    IF ~IsRational(query.time) THEN [st EXCEPT !.exact = FALSE]
    ELSE slide(query, st, position, VScale(Sub(One, query.time), st.movement),
               scaled_normal_of(query.collision, xz(position)))

\* the query of a sub-step and its result
Query(circle_bound, collision_result) ==
    [circle |-> circle_bound, time |-> collision_result[1],
     collision |-> collision_result[2]]

\* the loop body after get_first_collision returned collision_result
after_collision(st, circle_bound, collision_result) ==
    sub_step(Query(circle_bound, collision_result), st,
             advance(st.position, st.movement, collision_result[1]))

\* the state after a sub-step the model carries; else st, marked inexact
carried(st, next) == IF Representable(next) THEN next ELSE [st EXCEPT !.exact = FALSE]

\* The body of `for _ in 0..MAX_TRANSLATIONS`, run from iteration `iteration`
\* on.  st holds position, movement and tracked_velocity of the entity at
\* movable_index; movables holds the positions the other entities have now.
\* exact is FALSE when a sub-step is not Representable: the exact arithmetic
\* of the model stops there, and such a tick is outside the model.
RECURSIVE translations(_, _, _, _, _, _)
translations(movable_index, circle_bound, st, movables, static_objects, iteration) ==
    IF iteration >= MAX_TRANSLATIONS \/ ~st.exact THEN st
    ELSE IF below_minimum_translation(st.movement) THEN st
    ELSE translations(
             movable_index, circle_bound,
             carried(st, after_collision(
                             st, circle_bound,
                             get_first_collision(movable_index, circle_bound,
                                                 st.movement, movables,
                                                 static_objects))),
             movables, static_objects, iteration + 1)

\* let mut tracked_velocity
velocity_of(movable) == IF movable.velocity # <<>> THEN movable.velocity[1] ELSE VZero

\* let mut movement, with the knockback added
movement_of(movable, delta_seconds) ==
    IF movable.knockback # <<>>
    THEN VAdd(VScale(delta_seconds, velocity_of(movable)),
              VScale(movable.knockback[1].resistance_as_scale,
                     movable.knockback[1].amount))
    ELSE VScale(delta_seconds, velocity_of(movable))

\* a variant of written_back that leaves the knockback accumulated
written_back_keeps_knockback(movable, final) ==
    [movable |->
         [movable EXCEPT
             !.position = final.position,
             !.velocity = IF movable.velocity # <<>>
                          THEN <<final.tracked_velocity>> ELSE <<>>],
     exact |-> final.exact,
     queries |-> final.queries]

\* the components written back: position, velocity, and the knockback zeroed
written_back(movable, final) ==
    [movable |->
         [movable EXCEPT
             !.position = final.position,
             !.velocity = IF movable.velocity # <<>>
                          THEN <<final.tracked_velocity>> ELSE <<>>,
             !.knockback = IF movable.knockback # <<>>
                           THEN <<[movable.knockback[1] EXCEPT !.amount = VZero]>>
                           ELSE <<>>],
     exact |-> final.exact,
     queries |-> final.queries]

\* one iteration of `for (index, ..) in movables.iter_unsafe().enumerate()`;
\* circle_bound is built once, before the loop
resolve_movable(index, movables, static_objects, delta_seconds) ==
    written_back(
        movables[index],
        translations(index,
                     Circle(xz(movables[index].position), movables[index].radius),
                     [position |-> movables[index].position,
                      movement |-> movement_of(movables[index], delta_seconds),
                      tracked_velocity |-> velocity_of(movables[index]),
                      queries |-> <<>>, exact |-> TRUE],
                     movables, static_objects, 0))

\* a variant of resolved that leaves the Position of the entity as it was
resolved_position_kept(world, index, r) ==
    [movables |-> [world.movables EXCEPT
                      ![index] = [r.movable EXCEPT
                                     !.position = world.movables[index].position]],
     exact |-> r.exact,
     queries |-> Append(world.queries, r.queries)]

\* the world after the entity at index was resolved with result r
resolved(world, index, r) ==
    [movables |-> [world.movables EXCEPT ![index] = r.movable],
     exact |-> r.exact,
     queries |-> Append(world.queries, r.queries)]

\* the loop over the movables, from index on; each entity sees the positions
\* the entities before it were moved to
RECURSIVE collision_system_from(_, _, _, _)
collision_system_from(index, world, static_objects, delta_seconds) ==
    IF index > Len(world.movables) \/ ~world.exact THEN world
    ELSE collision_system_from(
             index + 1,
             resolved(world, index,
                      resolve_movable(index, world.movables, static_objects,
                                      delta_seconds)),
             static_objects, delta_seconds)

collision_system(movables, static_objects, delta_seconds) ==
    collision_system_from(1, [movables |-> movables, exact |-> TRUE, queries |-> <<>>],
                          static_objects, delta_seconds)

(***************************************************************************)
(* saga_collision: raycast                                                 *)
(***************************************************************************)
\* ignores.contains(entity)
contains(ignores, entity) == \E i \in 1..Len(ignores) : ignores[i] = entity

\* the (t, entity) pairs of the dynamic objects not ignored, in query order
RECURSIVE ray_collisions_with_dynamic_objects(_, _, _, _, _)
ray_collisions_with_dynamic_objects(position, direction, ignores, dynamic_objects, i) ==
    IF i > Len(dynamic_objects) THEN <<>>
    ELSE LET object == dynamic_objects[i]
             t == penetration_time_point_circle(
                      position, Circle(xz(object.position), object.radius), direction)
             rest == ray_collisions_with_dynamic_objects(
                         position, direction, ignores, dynamic_objects, i + 1)
         IN  IF contains(ignores, object.entity) THEN rest
             ELSE Candidate(t, object.entity) \o rest

\* the (t, entity) pairs of the segments of one mesh collider
RECURSIVE ray_collisions_with_lines(_, _, _, _, _)
ray_collisions_with_lines(position, direction, entity, lines, i) ==
    IF i > Len(lines) THEN <<>>
    ELSE Candidate(penetration_time_point_line(position, lines[i], direction), entity)
            \o ray_collisions_with_lines(position, direction, entity, lines, i + 1)

RECURSIVE ray_collisions_with_static_objects(_, _, _, _, _)
ray_collisions_with_static_objects(position, direction, ignores, static_objects, i) ==
    IF i > Len(static_objects) THEN <<>>
    ELSE LET object == static_objects[i]
             rest == ray_collisions_with_static_objects(
                         position, direction, ignores, static_objects, i + 1)
         IN  IF contains(ignores, object.entity) THEN rest
             ELSE ray_collisions_with_lines(position, direction, object.entity,
                                            object.lines, 1) \o rest

\* a variant of raycast that filters the static objects only
raycast_dynamic_unfiltered(position, direction, ignores, dynamic_objects, static_objects) ==
    min_by(ray_collisions_with_static_objects(position, direction, ignores, static_objects, 1)
           \o ray_collisions_with_dynamic_objects(position, direction, <<>>,
                                                  dynamic_objects, 1))

\* a variant of raycast that returns the first hit of the chain
raycast_first_of_chain(position, direction, ignores, dynamic_objects, static_objects) ==
    LET chain ==
            ray_collisions_with_static_objects(position, direction, ignores, static_objects, 1)
            \o ray_collisions_with_dynamic_objects(position, direction, ignores,
                                                   dynamic_objects, 1)
    IN  IF chain = <<>> THEN <<>> ELSE <<chain[1]>>

\* Option<(f32, Entity)>: <<>> or << <<t, entity>> >>
raycast(position, direction, ignores, dynamic_objects, static_objects) ==
    min_by(ray_collisions_with_static_objects(position, direction, ignores, static_objects, 1)
           \o ray_collisions_with_dynamic_objects(position, direction, ignores,
                                                  dynamic_objects, 1))

(***************************************************************************)
(* saga_collision: knockback events                                        *)
(***************************************************************************)
KnockbackEvent(entity, amount) == [entity |-> entity, amount |-> amount]

\* the HashMap built by the first loop of system_knockback_handler, read at
\* one key: <<>> when the key is absent, else the sum of the amounts
RECURSIVE knockback_accumulated(_, _, _)
knockback_accumulated(events, entity, i) ==
    IF i > Len(events) THEN <<>>
    ELSE LET rest == knockback_accumulated(events, entity, i + 1)
         IN  IF events[i].entity # entity THEN rest
             ELSE IF rest = <<>> THEN <<events[i].amount>>
             ELSE <<VAdd(events[i].amount, rest[1])>>

\* a mutant of system_knockback_handler: the last event of an entity
\* overwrites the earlier ones
knockback_handler_overwrite(events, movables) ==
    LET RECURSIVE last_of(_, _)
        last_of(entity, i) ==
            IF i = 0 THEN <<>>
            ELSE IF events[i].entity = entity THEN <<events[i].amount>>
            ELSE last_of(entity, i - 1)
    IN  [i \in 1..Len(movables) |->
            LET found == last_of(movables[i].entity, Len(events))
            IN  IF movables[i].knockback # <<>> /\ found # <<>>
                THEN [movables[i] EXCEPT
                         !.knockback = <<[@[1] EXCEPT !.amount = VAdd(@, found[1])]>>]
                ELSE movables[i]]

\* system_knockback_handler on the events not yet read: the movables after it
system_knockback_handler(events, movables) ==
    [i \in 1..Len(movables) |->
        LET found == knockback_accumulated(events, movables[i].entity, 1)
        IN  IF movables[i].knockback # <<>> /\ found # <<>>
            THEN [movables[i] EXCEPT
                     !.knockback = <<[@[1] EXCEPT !.amount = VAdd(@, found[1])]>>]
            ELSE movables[i]]

(***************************************************************************)
(* saga_collision: MeshCollider::from(CPUMesh)                             *)
(*                                                                         *)
(* A coordinate of a mesh vertex is an f32 kept as its sign bit and its    *)
(* magnitude, the two parts f32::to_bits lays out: 0.0 and -0.0 are two    *)
(* bit patterns of one number.                                             *)
(***************************************************************************)
F32(sign, magnitude) == [sign |-> sign, magnitude |-> magnitude]

\* f32::to_bits: the sign bit, then the bits of the magnitude
to_bits(v) == <<v.sign, v.magnitude>>

\* f32::from_bits
from_bits(bits) == F32(bits[1], bits[2])

\* the number an f32 stands for, as the arithmetic and == of f32 see it
f32_value(v) == IF v.sign = 1 THEN Whole(0 - v.magnitude) ELSE Whole(v.magnitude)

\* graphics::Vertex, its position only
Vertex(x, y, z) == [pos |-> [x |-> x, y |-> y, z |-> z]]

CPUMesh(vertices, indices) == [vertices |-> vertices, indices |-> indices]

TRIANGLE_SIZE == 3

\* slice::chunks(TRIANGLE_SIZE) from index i on; the last chunk may be shorter
RECURSIVE chunks(_, _)
chunks(indices, i) ==
    IF i > Len(indices) THEN <<>>
    ELSE IF i + TRIANGLE_SIZE - 1 > Len(indices)
    THEN <<SubSeq(indices, i, Len(indices))>>
    ELSE <<SubSeq(indices, i, i + TRIANGLE_SIZE - 1)>>
            \o chunks(indices, i + TRIANGLE_SIZE)

\* mesh.vertices[i].pos.xz() mapped to (v.x.to_bits(), v.y.to_bits())
flattened_bits(mesh, triangle) ==
    [k \in 1..Len(triangle) |->
        <<to_bits(mesh.vertices[triangle[k]].pos.x),
          to_bits(mesh.vertices[triangle[k]].pos.z)>>]

\* Itertools::unique: the first occurrence of every item, in order
RECURSIVE unique(_, _, _)
unique(items, i, seen) ==
    IF i > Len(items) THEN <<>>
    ELSE IF items[i] \in seen THEN unique(items, i + 1, seen)
    ELSE <<items[i]>> \o unique(items, i + 1, seen \cup {items[i]})

\* cgmath::vec2(f32::from_bits(x), f32::from_bits(y))
points_of_bits(items) ==
    [k \in 1..Len(items) |-> [x |-> from_bits(items[k][1]), y |-> from_bits(items[k][2])]]

\* Itertools::combinations(2): the pairs (i, j), i < j, in lexicographic order
RECURSIVE combinations(_, _, _)
combinations(items, i, j) ==
    IF i >= Len(items) THEN <<>>
    ELSE IF j > Len(items) THEN combinations(items, i + 1, i + 2)
    ELSE << <<items[i], items[j]>> >> \o combinations(items, i, j + 1)

\* Vector2<f32> == Vector2<f32>
vector2_eq(u, v) == f32_value(u.x) = f32_value(v.x) /\ f32_value(u.y) = f32_value(v.y)

\* the point of the collision plane a Vector2<f32> stands for
point_of(u) == Vec(f32_value(u.x), f32_value(u.y))

\* the closure over a pair: None if pair[0] == pair[1], else Some(LineSegment)
segment_of_pair(pair) ==
    IF vector2_eq(pair[1], pair[2]) THEN <<>>
    ELSE <<LineSegment(point_of(pair[1]), point_of(pair[2]))>>

\* .map(pair -> Option<LineSegment>).flatten()
RECURSIVE segments_of_pairs(_, _)
segments_of_pairs(pairs, i) ==
    IF i > Len(pairs) THEN <<>>
    ELSE segment_of_pair(pairs[i]) \o segments_of_pairs(pairs, i + 1)

\* the closure over a triangle
triangle_segments(mesh, triangle) ==
    segments_of_pairs(
        combinations(points_of_bits(unique(flattened_bits(mesh, triangle), 1, {})), 1, 2),
        1)

\* .map(triangle -> segments).flatten()
RECURSIVE all_line_segments(_, _, _)
all_line_segments(mesh, triangles, i) ==
    IF i > Len(triangles) THEN <<>>
    ELSE triangle_segments(mesh, triangles[i]) \o all_line_segments(mesh, triangles, i + 1)

\* impl From<CPUMesh> for MeshCollider: the lines of the collider
mesh_collider_from(mesh) == all_line_segments(mesh, chunks(mesh.indices, 1), 1)

(***************************************************************************)
(* State: one call of a function of the collision module.  pc is the       *)
(* position of the caller, call the function and its arguments, ret the    *)
(* value returned.                                                         *)
(***************************************************************************)
VARIABLES pc, call, ret

(***************************************************************************)
(* State: the world of the collision systems.  movables are the entities   *)
(* of the query of collision_system in iteration order, static_objects the *)
(* mesh colliders, knockback_events the events sent and not yet read,      *)
(* delta_seconds the frame time of the Time resource, schedule the         *)
(* schedule the frame is in and handler_ran whether the slot of            *)
(* system_knockback_handler in Update has passed.  The others record       *)
(* history: frame counts the passes of collision_system, previous is       *)
(* movables as the last pass found them, queries the calls of              *)
(* get_first_collision the last pass made per entity, each with the        *)
(* sub-step of the resolution loop that made it, sent the sum of the       *)
(* amounts sent per entity, drained the sum of the amounts collision_system*)
(* reset per entity and sent_count the number of events sent.              *)
(***************************************************************************)
VARIABLES movables, static_objects, knockback_events, delta_seconds, schedule,
          handler_ran, frame, previous, queries, sent, drained, sent_count

(***************************************************************************)
(* State: the game.  app_state and gameplay_stage are the States of bevy,  *)
(* next_app_state and next_gameplay_stage the NextState set and not yet    *)
(* applied (<<>> when unset), current_spawning_data the Local of           *)
(* system_enemy_spawning, live_enemies the number of entities with Enemy,  *)
(* spawn_enemy_events the SpawnEnemy events sent and not yet read, gun the *)
(* Gun component, gun_event the event system_player_shooting sent when it  *)
(* last ran, systems_ran the systems of Update that have run in this frame *)
(* and time_delta the Time::delta of the frame in milliseconds.            *)
(***************************************************************************)
VARIABLES app_state, next_app_state, gameplay_stage, next_gameplay_stage,
          current_spawning_data, live_enemies, spawn_enemy_events, gun, gun_event,
          systems_ran, time_delta

call_vars == <<pc, call, ret>>

game_vars == <<app_state, next_app_state, gameplay_stage, next_gameplay_stage,
               current_spawning_data, live_enemies, spawn_enemy_events, gun, gun_event,
               systems_ran, time_delta>>

world_vars == <<movables, static_objects, knockback_events, delta_seconds, schedule,
                handler_ran, frame, previous, queries, sent, drained, sent_count>>

vars == <<call_vars, world_vars, game_vars>>

\* no world: the state while a single function is called
NoWorld ==
    /\ movables = <<>>
    /\ static_objects = <<>>
    /\ knockback_events = <<>>
    /\ delta_seconds = Zero
    /\ schedule = "None"
    /\ handler_ran = FALSE
    /\ frame = 0
    /\ previous = <<>>
    /\ queries = <<>>
    /\ sent = <<>>
    /\ drained = <<>>
    /\ sent_count = 0

\* no game: the state while the collision module alone is looked at
NoGame ==
    /\ app_state = "None"
    /\ next_app_state = <<>>
    /\ gameplay_stage = "None"
    /\ next_gameplay_stage = <<>>
    /\ current_spawning_data = <<>>
    /\ live_enemies = 0
    /\ spawn_enemy_events = <<>>
    /\ gun = <<>>
    /\ gun_event = "None"
    /\ systems_ran = {}
    /\ time_delta = 0

\* no call: the state while the systems run
NoCall ==
    /\ pc = "idle"
    /\ call = [fn |-> "none"]
    /\ ret = <<>>

(***************************************************************************)
(* Bounds of the inputs                                                    *)
(***************************************************************************)
\* coefficients of solve_quadratic range over -QuadMax..QuadMax
QuadMax == 3

\* coordinates of the moving shape range over -PosMax..PosMax
PosMax == 2

\* components of the displacement range over -DirMax..DirMax
DirMax == 2

\* radii range over the halves 1/2, 2/2, ..., RadMax/2
RadMax == 3

\* coordinates of a stationary point or circle range over 0..TargetMax
TargetMax == 1

Coeffs == {Whole(i) : i \in -QuadMax..QuadMax}

Positions == {vec2(i, j) : i \in -PosMax..PosMax, j \in -PosMax..PosMax}

Directions == {vec2(i, j) : i \in -DirMax..DirMax, j \in -DirMax..DirMax}

Radii == {Rat(i, 2) : i \in 1..RadMax}

Targets == {vec2(i, j) : i \in 0..TargetMax, j \in 0..TargetMax}

\* static level edges: axis-aligned, diagonal and skew
Segments ==
    { LineSegment(vec2(0, 0), vec2(1, 0)),
      LineSegment(vec2(0, 0), vec2(0, 2)),
      LineSegment(vec2(1, 1), vec2(-1, 1)),
      LineSegment(vec2(0, 0), vec2(1, 1)),
      LineSegment(vec2(-1, 0), vec2(1, 1)),
      LineSegment(vec2(1, -1), vec2(0, 2)) }

NoVec == VZero

NoSeg == LineSegment(VZero, VZero)

NoCircle == Circle(VZero, Zero)

Call(fn, circle, point, seg, other, direction) ==
    [fn |-> fn, circle |-> circle, point |-> point, segment |-> seg,
     other |-> other, direction |-> direction, a |-> Zero, b |-> Zero, c |-> Zero]

QuadCall(a, b, c) ==
    [fn |-> "solve_quadratic", circle |-> NoCircle, point |-> NoVec, segment |-> NoSeg,
     other |-> NoCircle, direction |-> NoVec, a |-> a, b |-> b, c |-> c]

Circles == {Circle(p, r) : p \in Positions, r \in Radii}

\* the constructed example of the endpoint exclusion: segment (0,0)-(1,0),
\* radius 1/10, swept straight down from (2,1) and from (1/2,1)
ExampleSegment == LineSegment(vec2(0, 0), vec2(1, 0))

ExampleCircles ==
    { Circle(vec2(2, 1), Rat(1, 10)), Circle(Vec(Rat(1, 2), Whole(1)), Rat(1, 10)) }

ExampleDirections == {vec2(0, -j) : j \in 1..DirMax}

\* the queries of each primitive
IsCirclePointCall(q) ==
    \E c \in Circles, p \in Targets, d \in Directions :
        q = Call("circle_point", c, p, NoSeg, NoCircle, d)

IsPointCircleCall(q) ==
    \E t \in Targets, r \in Radii, p \in Positions, d \in Directions :
        q = Call("point_circle", Circle(t, r), p, NoSeg, NoCircle, d)

IsCircleCircleCall(q) ==
    \E c \in Circles, t \in Targets, d \in Directions :
        q = Call("circle_circle", c, NoVec, NoSeg, Circle(t, Rat(1, 2)), d)

IsCircleLineCall(q) ==
    \/ \E c \in Circles, s \in Segments, d \in Directions :
        q = Call("circle_line", c, NoVec, s, NoCircle, d)
    \/ \E c \in ExampleCircles, d \in ExampleDirections :
        q = Call("circle_line", c, NoVec, ExampleSegment, NoCircle, d)

IsPointLineCall(q) ==
    \E p \in Positions, s \in Segments, d \in Directions :
        q = Call("point_line", NoCircle, p, s, NoCircle, d)

(***************************************************************************)
(* solve_quadratic called on every triple of coefficients                  *)
(***************************************************************************)
QuadInit ==
    /\ NoGame
    /\ pc = "call"
    /\ \E a \in Coeffs, b \in Coeffs, c \in Coeffs : call = QuadCall(a, b, c)
    /\ ret = Err
    /\ NoWorld

CallSolveQuadratic ==
    /\ pc = "call"
    /\ call.fn = "solve_quadratic"
    /\ ret' = solve_quadratic(call.a, call.b, call.c)
    /\ pc' = "return"
    /\ UNCHANGED <<call, world_vars, game_vars>>

QuadNext == CallSolveQuadratic

QuadSpec == QuadInit /\ [][QuadNext]_vars

(***************************************************************************)
(* The penetration-time primitives called on every query of the bounds     *)
(***************************************************************************)
PenInit ==
    /\ NoGame
    /\ pc = "call"
    /\ \/ IsCirclePointCall(call)
       \/ IsPointCircleCall(call)
       \/ IsCircleCircleCall(call)
       \/ IsCircleLineCall(call)
       \/ IsPointLineCall(call)
    /\ NoWorld
    /\ ret = None

CallCirclePoint ==
    /\ pc = "call"
    /\ call.fn = "circle_point"
    /\ ret' = penetration_time_circle_point(call.circle, call.point, call.direction)
    /\ pc' = "return"
    /\ UNCHANGED <<call, world_vars, game_vars>>

CallPointCircle ==
    /\ pc = "call"
    /\ call.fn = "point_circle"
    /\ ret' = penetration_time_point_circle(call.point, call.circle, call.direction)
    /\ pc' = "return"
    /\ UNCHANGED <<call, world_vars, game_vars>>

CallCircleCircle ==
    /\ pc = "call"
    /\ call.fn = "circle_circle"
    /\ ret' = penetration_time_circle_circle(call.circle, call.direction, call.other)
    /\ pc' = "return"
    /\ UNCHANGED <<call, world_vars, game_vars>>

CallCircleLine ==
    /\ pc = "call"
    /\ call.fn = "circle_line"
    /\ ret' = penetration_time_circle_line(call.circle, call.segment, call.direction)
    /\ pc' = "return"
    /\ UNCHANGED <<call, world_vars, game_vars>>

CallPointLine ==
    /\ pc = "call"
    /\ call.fn = "point_line"
    /\ ret' = penetration_time_point_line(call.point, call.segment, call.direction)
    /\ pc' = "return"
    /\ UNCHANGED <<call, world_vars, game_vars>>

PenNext ==
    \/ CallCirclePoint
    \/ CallPointCircle
    \/ CallCircleCircle
    \/ CallCircleLine
    \/ CallPointLine

PenSpec == PenInit /\ [][PenNext]_vars

(***************************************************************************)
(* The systems of a frame                                                  *)
(***************************************************************************)
\* frames of a behaviour
MaxFrames == 2

\* knockback events sent in a behaviour
MaxEvents == 2

\* components of a velocity range over -VelMax..VelMax
VelMax == 2

\* entity ids: movables 1..3, the static object 4
Entities == 1..4

Knockbackable(amount, resistance_as_scale) ==
    [amount |-> amount, resistance_as_scale |-> resistance_as_scale]

Movable(entity, position, velocity, knockback, radius) ==
    [entity |-> entity, position |-> position, velocity |-> velocity,
     knockback |-> knockback, radius |-> radius]

MeshCollider(entity, lines) == [entity |-> entity, lines |-> lines]

\* Time::delta_seconds of a frame
Deltas == {One, Rat(1, 2)}

\* bevy_time in First: the frame begins, the Time resource is updated
TimeUpdate ==
    /\ schedule = "First"
    /\ frame < MaxFrames
    /\ \E dt \in Deltas : delta_seconds' = dt
    /\ schedule' = "Update"
    /\ handler_ran' = FALSE
    /\ UNCHANGED <<movables, static_objects, knockback_events, frame, previous, queries,
                   sent, drained, sent_count, call_vars, game_vars>>

\* the entities events are sent for: two with a Knockbackable, one without
KnockbackTargets == {1, 2, 3}

\* apply_knockback, called by a system of Update (on_player_shot,
\* system_enemy_ai) that runs before or after system_knockback_handler
ApplyKnockback ==
    /\ schedule = "Update"
    /\ sent_count < MaxEvents
    /\ \E entity \in KnockbackTargets, amount \in {vec2(1, 0), vec2(-2, 2)} :
        /\ knockback_events' = Append(knockback_events, KnockbackEvent(entity, amount))
        /\ sent' = [sent EXCEPT ![entity] = VAdd(@, amount)]
    /\ sent_count' = sent_count + 1
    /\ UNCHANGED <<movables, static_objects, delta_seconds, schedule, handler_ran, frame,
                   previous, queries, drained, call_vars, game_vars>>

\* system_knockback_handler.run_if(on_event::<KnockbackEvent>()) in Update:
\* it runs when there are events it has not read, and reads them all
SystemKnockbackHandler ==
    /\ schedule = "Update"
    /\ ~handler_ran
    /\ handler_ran' = TRUE
    /\ IF knockback_events # <<>>
       THEN /\ movables' = system_knockback_handler(knockback_events, movables)
            /\ knockback_events' = <<>>
       ELSE UNCHANGED <<movables, knockback_events>>
    /\ UNCHANGED <<static_objects, delta_seconds, schedule, frame, previous, queries,
                   sent, drained, sent_count, call_vars, game_vars>>

\* the amount of the Knockbackable of movable m, zero when it has none
AmountOf(m) == IF m.knockback # <<>> THEN m.knockback[1].amount ELSE VZero

\* the sum of the amounts of the movables with entity id e
RECURSIVE AmountOfEntity(_, _, _)
AmountOfEntity(ms, e, i) ==
    IF i > Len(ms) THEN VZero
    ELSE IF ms[i].entity = e THEN VAdd(AmountOf(ms[i]), AmountOfEntity(ms, e, i + 1))
    ELSE AmountOfEntity(ms, e, i + 1)

\* collision_system in Last: the frame ends
CollisionSystem ==
    /\ schedule = "Update"
    /\ handler_ran
    /\ \E world \in {collision_system(movables, static_objects, delta_seconds)} :
           /\ world.exact
           /\ movables' = world.movables
           /\ queries' = world.queries
    /\ previous' = movables
    /\ drained' = [e \in Entities |-> VAdd(drained[e], AmountOfEntity(movables, e, 1))]
    /\ frame' = frame + 1
    /\ schedule' = "First"
    /\ UNCHANGED <<static_objects, knockback_events, delta_seconds, handler_ran,
                   sent, sent_count, call_vars, game_vars>>

NoHistory ==
    /\ frame = 0
    /\ previous = <<>>
    /\ queries = <<>>
    /\ sent = [e \in Entities |-> VZero]
    /\ drained = [e \in Entities |-> VZero]
    /\ sent_count = 0
    /\ knockback_events = <<>>
    /\ delta_seconds = Zero
    /\ schedule = "First"
    /\ handler_ran = FALSE

(***************************************************************************)
(* The game world: a player and an enemy with Knockbackable, a movable     *)
(* without Velocity and Knockbackable, and a static object; far apart, so  *)
(* no movement of the bounds meets a collider.                             *)
(***************************************************************************)
GameMovables ==
    { << Movable(1, vec3(Whole(0), Whole(2), Whole(-4)), <<v>>,
                 <<Knockbackable(VZero, One)>>, One),
         Movable(2, vec3(Whole(8), Whole(0), Whole(0)), <<VZero>>,
                 <<Knockbackable(VZero, Rat(1, 2))>>, Rat(1, 2)),
         Movable(3, vec3(Whole(0), Whole(0), Whole(8)), <<>>, <<>>, One) >> :
        v \in {vec2(1, 0)} }

GameStatics ==
    << MeshCollider(4, << LineSegment(vec2(-8, -1), vec2(-8, 1)) >>) >>

WorldInit ==
    /\ NoGame
    /\ NoCall
    /\ NoHistory
    /\ movables \in GameMovables
    /\ static_objects = GameStatics

WorldNext ==
    \/ TimeUpdate
    \/ ApplyKnockback
    \/ SystemKnockbackHandler
    \/ CollisionSystem

WorldSpec == WorldInit /\ [][WorldNext]_vars

(***************************************************************************)
(* Levels: one mover in front of walls, or two movers facing each other.   *)
(* Coordinates are (x, z) of the ground plane; every entity is at height 2.*)
(***************************************************************************)
Velocities == {vec2(i, j) : i \in -VelMax..VelMax, j \in -VelMax..VelMax}

Wall == LineSegment(vec2(2, -2), vec2(2, 2))

WallReversed == LineSegment(vec2(2, 2), vec2(2, -2))

\* a wall of length 5
WallSkew == LineSegment(vec2(3, 0), vec2(0, 4))

WallAcross == LineSegment(vec2(2, 2), vec2(-2, 2))

\* a wall whose end a mover of radius 1/2 at the origin reaches first with
\* the movement (1, 2), at time 1/10
WallCorner == LineSegment(Vec(Rat(1, 2), Rat(1, 2)), Vec(Rat(1, 2), Rat(5, 2)))

WallLayouts ==
    { << MeshCollider(4, <<Wall>>) >>,
      << MeshCollider(4, <<WallCorner>>) >>,
      << MeshCollider(4, <<WallReversed>>) >>,
      << MeshCollider(4, <<WallSkew>>) >>,
      << MeshCollider(4, <<Wall, WallAcross>>) >> }

Ground(x, z) == vec3(Whole(x), Whole(2), Whole(z))

MoverPositions == {Ground(0, 0), Ground(0, 1), Ground(-1, -1)}

MoverKnockbacks ==
    { <<>>, <<Knockbackable(vec2(2, 0), Rat(1, 2))>> }

Movers ==
    { Movable(1, p, <<v>>, k, r) :
        p \in MoverPositions, v \in Velocities, k \in MoverKnockbacks,
        r \in {One, Rat(1, 2)} }

Opponents ==
    { Movable(2, p, <<v>>, <<Knockbackable(VZero, One)>>, One) :
        p \in {Ground(3, 0)}, v \in {VZero, vec2(-1, 0)} }

\* movers that creep: at 1/20000 per second the displacement of a frame is
\* below MINIMUM_TRANSLATION_DISTANCE, at 1/5000 it is 0.0001 in a frame of
\* half a second and 0.0002 in a frame of one
SlowMovers ==
    { Movable(1, Ground(0, 0), <<Vec(Rat(1, s), Zero)>>, <<>>, One) :
        s \in {20000, 5000} }
    \cup
    \* at rest, with a knockback accumulated that is below the threshold
    { Movable(1, Ground(0, 0), <<VZero>>,
              <<Knockbackable(Vec(Rat(1, 20000), Zero), One)>>, One) }

TickInit ==
    /\ NoGame
    /\ NoCall
    /\ NoHistory
    /\ \/ \E m \in Movers, w \in WallLayouts :
            /\ movables = <<m>>
            /\ static_objects = w
       \/ \E m \in SlowMovers :
            /\ movables = <<m>>
            /\ static_objects = << MeshCollider(4, <<Wall>>) >>
       \/ \E m \in Movers, o \in Opponents :
            /\ movables \in {<<m, o>>, <<o, m>>}
            /\ static_objects = <<>>

TickNext ==
    \/ TimeUpdate
    \/ SystemKnockbackHandler
    \/ CollisionSystem

TickSpec == TickInit /\ [][TickNext]_vars

(***************************************************************************)
(* raycast called on the rays and scenes of the bounds                     *)
(***************************************************************************)
\* coordinates of a ray's origin range over -RayMax..RayMax
RayMax == 1

RayOrigins == {vec2(i, j) : i \in -RayMax..RayMax, j \in -RayMax..RayMax}

\* the circle colliders of a scene: the shooter at the origin, and targets
RayDynamics ==
    { << Movable(1, Ground(0, 0), <<>>, <<>>, r),
         Movable(2, Ground(2, 0), <<>>, <<>>, Rat(1, 2)),
         Movable(3, Ground(-2, 1), <<>>, <<>>, One) >> :
        r \in {Rat(1, 2), One} }

RayStatics ==
    { << MeshCollider(4, <<LineSegment(vec2(3, -3), vec2(3, 3)),
                           LineSegment(vec2(-1, 2), vec2(2, 2))>>) >>,
      << MeshCollider(4, <<LineSegment(vec2(-1, -2), vec2(2, 1))>>),
         MeshCollider(5, <<LineSegment(vec2(0, -2), vec2(0, 2))>>) >>,
      <<>> }

RayIgnores == { <<>>, <<1>>, <<2, 1>>, <<4, 1>> }

RayCall(position, direction, ignores) ==
    [fn |-> "raycast", point |-> position, direction |-> direction, ignores |-> ignores]

RayInit ==
    /\ NoGame
    /\ pc = "call"
    /\ \E o \in RayOrigins, d \in Directions, i \in RayIgnores : call = RayCall(o, d, i)
    /\ ret = <<>>
    /\ \E dyn \in RayDynamics : movables = dyn
    /\ \E st \in RayStatics : static_objects = st
    /\ knockback_events = <<>>
    /\ delta_seconds = Zero
    /\ schedule = "None"
    /\ handler_ran = FALSE
    /\ frame = 0
    /\ previous = <<>>
    /\ queries = <<>>
    /\ sent = <<>>
    /\ drained = <<>>
    /\ sent_count = 0

CallRaycast ==
    /\ pc = "call"
    /\ call.fn = "raycast"
    /\ ret' = raycast(call.point, call.direction, call.ignores, movables, static_objects)
    /\ pc' = "return"
    /\ UNCHANGED <<call, world_vars, game_vars>>

RayNext == CallRaycast

RaySpec == RayInit /\ [][RayNext]_vars

(***************************************************************************)
(* get_first_collision called for a mover in the levels, and               *)
(* penetration_time_circle_line called on segments of length zero          *)
(***************************************************************************)
\* a wall whose second end a mover of radius 1/2 at the origin reaches
\* first with the movement (1, 2): WallCorner with its ends exchanged
WallCornerReversed == LineSegment(Vec(Rat(1, 2), Rat(5, 2)), Vec(Rat(1, 2), Rat(1, 2)))

FirstLayouts ==
    WallLayouts \cup { << MeshCollider(4, <<WallCornerReversed>>) >>,
                       << MeshCollider(4, <<Wall>>), MeshCollider(5, <<WallCorner>>) >>,
                       <<>> }

\* the others of the query: none, or an opponent of radius 1 at (3, 0)
FirstOthers == { <<>>, << Movable(2, Ground(3, 0), <<VZero>>, <<>>, One) >> }

FirstCall(movable_index, circle_bound, direction) ==
    [fn |-> "get_first_collision", movable_index |-> movable_index,
     circle |-> circle_bound, direction |-> direction]

\* segments of length zero; MeshCollider::from makes none
DegenerateSegments == {LineSegment(p, p) : p \in Targets}

IsDegenerateLineCall(q) ==
    \E p \in Positions, s \in DegenerateSegments, d \in Directions :
        q = Call("circle_line", Circle(p, One), NoVec, s, NoCircle, d)

FirstInit ==
    /\ NoGame
    /\ pc = "call"
    /\ ret = <<>>
    /\ knockback_events = <<>>
    /\ delta_seconds = Zero
    /\ schedule = "None"
    /\ handler_ran = FALSE
    /\ frame = 0
    /\ previous = <<>>
    /\ queries = <<>>
    /\ sent = <<>>
    /\ drained = <<>>
    /\ sent_count = 0
    /\ \/ \E p \in MoverPositions, r \in {One, Rat(1, 2)}, d \in Directions,
             o \in FirstOthers, w \in FirstLayouts :
               /\ movables = << Movable(1, p, <<d>>, <<>>, r) >> \o o
               /\ static_objects = w
               /\ call = FirstCall(1, Circle(xz(p), r), d)
       \* a later sub-step of the second entity of the query: it has advanced
       \* from (0, 0) to (1, 0), and circle_bound is where it started
       \/ \E r \in {One, Rat(1, 2)}, d \in Directions, o \in FirstOthers \ {<<>>},
             w \in {<<>>, << MeshCollider(4, <<Wall>>) >>} :
               /\ movables = o \o << Movable(1, Ground(1, 0), <<d>>, <<>>, r) >>
               /\ static_objects = w
               /\ call = FirstCall(2, Circle(vec2(0, 0), r), d)
       \/ /\ IsDegenerateLineCall(call)
          /\ movables = <<>>
          /\ static_objects = <<>>

CallGetFirstCollision ==
    /\ pc = "call"
    /\ call.fn = "get_first_collision"
    /\ ret' = get_first_collision(call.movable_index, call.circle, call.direction,
                                  movables, static_objects)
    /\ pc' = "return"
    /\ UNCHANGED <<call, world_vars, game_vars>>

FirstNext ==
    \/ CallGetFirstCollision
    \/ CallCircleLine

FirstSpec == FirstInit /\ [][FirstNext]_vars

(***************************************************************************)
(* MeshCollider::from called on meshes of one and two triangles            *)
(***************************************************************************)
\* indices of a mesh range over 1..MeshIndexMax
MeshIndexMax == 5

PlusZero == F32(0, 0)

MinusZero == F32(1, 0)

PlusOne == F32(0, 1)

\* the vertices of a level mesh: two that differ in the sign of a zero,
\* two that differ in height only, and the corners of a floor tile
MeshVertices ==
    << Vertex(PlusZero, PlusZero, PlusZero),
       Vertex(MinusZero, PlusZero, PlusZero),
       Vertex(PlusOne, PlusZero, PlusZero),
       Vertex(PlusOne, PlusOne, PlusZero),
       Vertex(PlusZero, PlusZero, PlusOne),
       Vertex(PlusOne, PlusZero, PlusOne),
       Vertex(F32(1, 1), PlusZero, PlusOne) >>

MeshTriangles == [1..TRIANGLE_SIZE -> 1..MeshIndexMax]

Meshes ==
    {CPUMesh(MeshVertices, t) : t \in MeshTriangles}
        \cup {CPUMesh(MeshVertices, t \o <<3, 5, 6>>) : t \in MeshTriangles}

MeshCall(mesh) == [fn |-> "mesh_collider_from", mesh |-> mesh]

MeshInit ==
    /\ NoGame
    /\ pc = "call"
    /\ \E mesh \in Meshes : call = MeshCall(mesh)
    /\ ret = <<>>
    /\ NoWorld

CallMeshColliderFrom ==
    /\ pc = "call"
    /\ call.fn = "mesh_collider_from"
    /\ ret' = mesh_collider_from(call.mesh)
    /\ pc' = "return"
    /\ UNCHANGED <<call, world_vars, game_vars>>

MeshNext == CallMeshColliderFrom

MeshSpec == MeshInit /\ [][MeshNext]_vars

(***************************************************************************)
(* doomclone: bevy_time::Timer in TimerMode::Once, durations in            *)
(* milliseconds                                                            *)
(***************************************************************************)
\* Timer::new(duration, TimerMode::Once); Timer::from_seconds(0.0, ..) and
\* Timer::default() are Timer(0)
Timer(duration) == [duration |-> duration, elapsed |-> 0, finished |-> FALSE]

\* Timer::tick(delta): a finished timer stays as it is; else the elapsed
\* time grows up to the duration and the timer is finished once it is there
tick(timer, delta) ==
    IF timer.finished THEN timer
    ELSE IF timer.elapsed + delta >= timer.duration
    THEN [timer EXCEPT !.elapsed = timer.duration, !.finished = TRUE]
    ELSE [timer EXCEPT !.elapsed = timer.elapsed + delta]

(***************************************************************************)
(* doomclone: the waves                                                    *)
(***************************************************************************)
WaveData(enemy_ids, enemy_count, enemy_cap, spawning_interval) ==
    [enemy_ids |-> enemy_ids, enemy_count |-> enemy_count, enemy_cap |-> enemy_cap,
     spawning_interval |-> spawning_interval]

\* AllWaveData as populate_wave_data fills it; enemy_ids are the ids of the
\* entries of data, all of positive weight
wave_datas ==
    [stage \in {"Wave1", "Wave2", "Wave3"} |->
        IF stage = "Wave1" THEN WaveData({0, 1}, 20, 5, 5000)
        ELSE IF stage = "Wave2" THEN WaveData({0, 1, 2, 3}, 25, 10, 2000)
        ELSE WaveData({0, 1, 2, 3, 4}, 30, 15, 1000)]

\* struct WaveSpawningData
WaveSpawningData(number_of_spawned_enemies, spawn_cooldown) ==
    [number_of_spawned_enemies |-> number_of_spawned_enemies,
     spawn_cooldown |-> spawn_cooldown]

\* the counter of spawned enemies is a u32; the model follows it up to
\* MaxSpawned
MaxSpawned == 32

\* Time::delta of a frame of the waves, in milliseconds
WaveDeltas == {1000, 2500}

\* system_enemy_spawning.run_if(in_state(AppState::Gameplay)) in Update
SystemEnemySpawning ==
    /\ app_state = "Gameplay"
    /\ "system_enemy_spawning" \notin systems_ran
    /\ current_spawning_data.number_of_spawned_enemies < MaxSpawned
    /\ systems_ran' = systems_ran \cup {"system_enemy_spawning"}
    /\ LET wave_data == wave_datas[gameplay_stage]
           is_finished_with_spawning ==
               current_spawning_data.number_of_spawned_enemies = wave_data.enemy_count
           overcrowded == live_enemies >= wave_data.enemy_cap
           spawn_cooldown ==
               IF ~overcrowded
               THEN tick(current_spawning_data.spawn_cooldown, time_delta)
               ELSE current_spawning_data.spawn_cooldown
           should_spawn ==
               spawn_cooldown.finished /\ ~is_finished_with_spawning /\ ~overcrowded
       IN  IF is_finished_with_spawning /\ live_enemies = 0
           THEN /\ current_spawning_data' = WaveSpawningData(0, Timer(0))
                /\ next_gameplay_stage' =
                       (IF gameplay_stage = "Wave1" THEN <<"Wave2">>
                        ELSE IF gameplay_stage = "Wave2" THEN <<"Wave3">>
                        ELSE next_gameplay_stage)
                /\ next_app_state' =
                       (IF gameplay_stage = "Wave3" THEN <<"Win">> ELSE next_app_state)
                /\ UNCHANGED spawn_enemy_events
           ELSE IF should_spawn
           THEN /\ \E enemy_id \in wave_data.enemy_ids :
                       spawn_enemy_events' = Append(spawn_enemy_events, enemy_id)
                /\ current_spawning_data' =
                       WaveSpawningData(
                           current_spawning_data.number_of_spawned_enemies + 1,
                           Timer(wave_data.spawning_interval))
                /\ UNCHANGED <<next_gameplay_stage, next_app_state>>
           ELSE /\ current_spawning_data' =
                       [current_spawning_data EXCEPT !.spawn_cooldown = spawn_cooldown]
                /\ UNCHANGED <<next_gameplay_stage, next_app_state, spawn_enemy_events>>
    /\ UNCHANGED <<app_state, gameplay_stage, live_enemies, gun, gun_event, time_delta,
                   call_vars, world_vars>>

\* system_spawn_enemy_by_id.run_if(on_event::<SpawnEnemy>()), after
\* system_enemy_spawning: one entity with Enemy per event read
SystemSpawnEnemyById ==
    /\ app_state = "Gameplay"
    /\ "system_enemy_spawning" \in systems_ran
    /\ spawn_enemy_events # <<>>
    /\ live_enemies' = live_enemies + Len(spawn_enemy_events)
    /\ spawn_enemy_events' = <<>>
    /\ UNCHANGED <<app_state, next_app_state, gameplay_stage, next_gameplay_stage,
                   current_spawning_data, gun, gun_event, systems_ran, time_delta,
                   call_vars, world_vars>>

\* on_entity_death for an enemy the player shot: the entity is despawned
OnEnemyDeath ==
    /\ app_state = "Gameplay"
    /\ live_enemies > 0
    /\ live_enemies' = live_enemies - 1
    /\ UNCHANGED <<app_state, next_app_state, gameplay_stage, next_gameplay_stage,
                   current_spawning_data, spawn_enemy_events, gun, gun_event,
                   systems_ran, time_delta, call_vars, world_vars>>

\* system_loss_condition.run_if(in_state(AppState::Gameplay)) when the
\* enemies have brought the health of the player to 0
SystemLossCondition ==
    /\ app_state = "Gameplay"
    /\ live_enemies > 0
    /\ "system_loss_condition" \notin systems_ran
    /\ systems_ran' = systems_ran \cup {"system_loss_condition"}
    /\ next_app_state' = <<"Loss">>
    /\ UNCHANGED <<app_state, gameplay_stage, next_gameplay_stage,
                   current_spawning_data, live_enemies, spawn_enemy_events, gun,
                   gun_event, time_delta, call_vars, world_vars>>

\* system_restart_on_restart_ui_killed in Win or Loss, on a DeathEvent
SystemRestartOnRestartUiKilled ==
    /\ app_state \in {"Win", "Loss"}
    /\ "system_restart_on_restart_ui_killed" \notin systems_ran
    /\ systems_ran' = systems_ran \cup {"system_restart_on_restart_ui_killed"}
    /\ next_gameplay_stage' = <<"Wave1">>
    /\ next_app_state' = <<"Gameplay">>
    /\ UNCHANGED <<app_state, gameplay_stage, current_spawning_data, live_enemies,
                   spawn_enemy_events, gun, gun_event, time_delta, call_vars, world_vars>>

\* the next frame: Time is updated in First and the NextState of both states
\* is applied in StateTransition; OnExit(AppState::Gameplay) and
\* OnEnter(AppState::Gameplay) run system_cleanup_everything, which despawns
\* every entity with Enemy
StateTransition ==
    /\ app_state # "None"
    /\ gun = <<>>
    /\ app_state = "Gameplay" => "system_enemy_spawning" \in systems_ran
    /\ spawn_enemy_events = <<>>
    /\ systems_ran' = {}
    /\ \E delta \in WaveDeltas : time_delta' = delta
    /\ gameplay_stage' =
           (IF next_gameplay_stage # <<>> THEN next_gameplay_stage[1] ELSE gameplay_stage)
    /\ next_gameplay_stage' = <<>>
    /\ app_state' = (IF next_app_state # <<>> THEN next_app_state[1] ELSE app_state)
    /\ next_app_state' = <<>>
    /\ live_enemies' =
           (IF next_app_state # <<>> /\ next_app_state[1] # app_state
               /\ "Gameplay" \in {app_state, next_app_state[1]}
            THEN 0 ELSE live_enemies)
    /\ UNCHANGED <<current_spawning_data, spawn_enemy_events, gun, gun_event,
                   call_vars, world_vars>>

\* GamePlugin::build: AppState::Gameplay, GameplayStage::Wave1, the Local at
\* its default
WaveInit ==
    /\ NoCall
    /\ NoWorld
    /\ app_state = "Gameplay"
    /\ next_app_state = <<>>
    /\ gameplay_stage = "Wave1"
    /\ next_gameplay_stage = <<>>
    /\ current_spawning_data = WaveSpawningData(0, Timer(0))
    /\ live_enemies = 0
    /\ spawn_enemy_events = <<>>
    /\ gun = <<>>
    /\ gun_event = "None"
    /\ systems_ran = {}
    /\ time_delta \in WaveDeltas

WaveNext ==
    \/ SystemEnemySpawning
    \/ SystemSpawnEnemyById
    \/ OnEnemyDeath
    \/ SystemLossCondition
    \/ SystemRestartOnRestartUiKilled
    \/ StateTransition

WaveSpec == WaveInit /\ [][WaveNext]_vars

(***************************************************************************)
(* doomclone: the gun                                                      *)
(***************************************************************************)
\* enum GunState; timer is Timer(0) where the variant has none
ReadyToFire == [kind |-> "ReadyToFire", timer |-> Timer(0)]

WaitingForFire(timer) == [kind |-> "WaitingForFire", timer |-> timer]

Reloading(timer) == [kind |-> "Reloading", timer |-> timer]

\* struct Gun; the durations in milliseconds
Gun(magazine_size, number_of_loaded_bullets, firing_cooldown, reload_duration, gun_state) ==
    [magazine_size |-> magazine_size,
     number_of_loaded_bullets |-> number_of_loaded_bullets,
     firing_cooldown |-> firing_cooldown,
     reload_duration |-> reload_duration,
     gun_state |-> gun_state]

\* Gun::new
gun_new(magazine_size, firing_cooldown, reload_duration) ==
    Gun(magazine_size, magazine_size, firing_cooldown, reload_duration, ReadyToFire)

\* Time::delta of a frame of the gun, in milliseconds
GunDeltas == {100, 500}

\* the end of system_player_shooting: the state the gun goes to
after_shot(g) ==
    [g EXCEPT !.gun_state =
        IF g.number_of_loaded_bullets > 0
        THEN WaitingForFire(Timer(g.firing_cooldown))
        ELSE Reloading(Timer(g.reload_duration))]

\* system_player_shooting: the gun after it and the event it sent
system_player_shooting(g, left_mouse_pressed) ==
    IF ~left_mouse_pressed \/ g.gun_state.kind # "ReadyToFire"
    THEN [gun |-> g, event |-> "None"]
    ELSE IF g.number_of_loaded_bullets > 0
    THEN [gun |-> after_shot([g EXCEPT !.number_of_loaded_bullets = @ - 1]),
          event |-> "GunFire"]
    ELSE [gun |-> after_shot([g EXCEPT !.number_of_loaded_bullets = g.magazine_size]),
          event |-> "GunReload"]

\* system_gun_update for one gun
system_gun_update(g, delta) ==
    IF g.gun_state.kind = "ReadyToFire" THEN g
    ELSE IF tick(g.gun_state.timer, delta).finished
    THEN [g EXCEPT !.gun_state = ReadyToFire]
    ELSE [g EXCEPT !.gun_state.timer = tick(g.gun_state.timer, delta)]

\* system_player_shooting in Update; the MouseButtonEvents of the frame hold
\* a press of the left button or not
SystemPlayerShooting ==
    /\ gun # <<>>
    /\ "system_player_shooting" \notin systems_ran
    /\ systems_ran' = systems_ran \cup {"system_player_shooting"}
    /\ \E left_mouse_pressed \in BOOLEAN :
           /\ gun' = system_player_shooting(gun, left_mouse_pressed).gun
           /\ gun_event' = system_player_shooting(gun, left_mouse_pressed).event
    /\ UNCHANGED <<app_state, next_app_state, gameplay_stage, next_gameplay_stage,
                   current_spawning_data, live_enemies, spawn_enemy_events, time_delta,
                   call_vars, world_vars>>

\* system_gun_update in Update
SystemGunUpdate ==
    /\ gun # <<>>
    /\ "system_gun_update" \notin systems_ran
    /\ systems_ran' = systems_ran \cup {"system_gun_update"}
    /\ gun' = system_gun_update(gun, time_delta)
    /\ UNCHANGED <<app_state, next_app_state, gameplay_stage, next_gameplay_stage,
                   current_spawning_data, live_enemies, spawn_enemy_events, gun_event,
                   time_delta, call_vars, world_vars>>

\* the next frame of the gun: both systems have run, Time is updated
GunFrame ==
    /\ gun # <<>>
    /\ systems_ran = {"system_player_shooting", "system_gun_update"}
    /\ systems_ran' = {}
    /\ \E delta \in GunDeltas : time_delta' = delta
    /\ UNCHANGED <<app_state, next_app_state, gameplay_stage, next_gameplay_stage,
                   current_spawning_data, live_enemies, spawn_enemy_events, gun, gun_event,
                   call_vars, world_vars>>

\* spawn_gun: Gun::new(4, 1.0, 200 ms, 1000 ms)
GunInit ==
    /\ NoCall
    /\ NoWorld
    /\ app_state = "Gameplay"
    /\ next_app_state = <<>>
    /\ gameplay_stage = "Wave1"
    /\ next_gameplay_stage = <<>>
    /\ current_spawning_data = WaveSpawningData(0, Timer(0))
    /\ live_enemies = 0
    /\ spawn_enemy_events = <<>>
    /\ gun = gun_new(4, 200, 1000)
    /\ gun_event = "None"
    /\ systems_ran = {}
    /\ time_delta \in GunDeltas

GunNext ==
    \/ SystemPlayerShooting
    \/ SystemGunUpdate
    \/ GunFrame

GunSpec == GunInit /\ [][GunNext]_vars

(***************************************************************************)
(* Properties of solve_quadratic                                           *)
(***************************************************************************)
Returned == pc = "return"

Discriminant(a, b, c) == Sub(Mul(b, b), Mul(Mul(Whole(4), a), c))

IsRoot(a, b, c, r) == Sign(Add(Add(Mul(a, Mul(r, r)), Mul(b, r)), c)) = 0

\* C3: solve_quadratic fails exactly on a=b=c=0, returns no root when a=b=0,
\* c#0 or when a#0 and the discriminant is negative, the one root -c/b when
\* a=0, b#0, the one root -b/(2a) when a#0 and the discriminant is 0, and two
\* roots, the smaller first, when a#0 and the discriminant is positive; every
\* returned root r satisfies a*r^2 + b*r + c = 0.
C3_SolveQuadratic ==
    (Returned /\ call.fn = "solve_quadratic") =>
        LET a == call.a
            b == call.b
            c == call.c
            disc == Discriminant(a, b, c)
            roots == ret.roots
        IN  /\ (~ret.ok) <=> (Sign(a) = 0 /\ Sign(b) = 0 /\ Sign(c) = 0)
            /\ (Sign(a) = 0 /\ Sign(b) = 0 /\ Sign(c) # 0) => (ret.ok /\ roots = <<>>)
            /\ (Sign(a) # 0 /\ Sign(disc) < 0) => (ret.ok /\ roots = <<>>)
            /\ (Sign(a) = 0 /\ Sign(b) # 0) =>
                   (Len(roots) = 1 /\ Eq(Mul(b, roots[1]), Neg(c)))
            /\ (Sign(a) # 0 /\ Sign(disc) = 0) =>
                   (Len(roots) = 1 /\ Eq(Mul(Mul(Whole(2), a), roots[1]), Neg(b)))
            /\ (Sign(a) # 0 /\ Sign(disc) > 0) =>
                   (Len(roots) = 2 /\ Lt(roots[1], roots[2]))
            /\ \A i \in 1..Len(roots) : IsRoot(a, b, c, roots[i])

\* two irrational roots of a parabola that opens downwards
C3_Witness ==
    /\ Returned
    /\ call.fn = "solve_quadratic"
    /\ Sign(call.a) < 0
    /\ Len(ret.roots) = 2
    /\ ~IsRational(ret.roots[1])
    /\ Lt(ret.roots[1], ret.roots[2])

(***************************************************************************)
(* Geometry the properties are stated in, computed apart from the code     *)
(***************************************************************************)
Square(x) == Mul(x, x)

TimeOf(r) == r[1]

\* squared distance from point p to the finite segment seg
SegmentDist2(p, seg) ==
    LET dir == VSub(seg.b, seg.a)
        u   == dot(VSub(p, seg.a), dir)
    IN  IF Sign(u) <= 0 THEN magnitude2(VSub(p, seg.a))
        ELSE IF Ge(u, magnitude2(dir)) THEN magnitude2(VSub(p, seg.b))
        ELSE Div(Square(cross_2d(VSub(p, seg.a), dir)), magnitude2(dir))

\* the target of a circle query: the point, or the other circle's center
TargetOf(q) == IF q.fn = "circle_circle" THEN q.other.position ELSE q.point

\* the radius a circle query compares the distance with
ReachOf(q) ==
    IF q.fn = "circle_circle" THEN Add(q.circle.radius, q.other.radius)
    ELSE q.circle.radius

\* the moving circle strictly overlaps the target at the start of the step
Overlaps(q) ==
    IF q.fn = "circle_line"
    THEN Lt(SegmentDist2(q.circle.position, q.segment), Square(q.circle.radius))
    ELSE Lt(magnitude2(VSub(TargetOf(q), q.circle.position)), Square(ReachOf(q)))

\* the target point is within or at the reach of the circle
Touches(q) ==
    Le(magnitude2(VSub(TargetOf(q), q.circle.position)), Square(ReachOf(q)))

\* the displacement has a positive component toward the target point
MovesToward(q) == Sign(dot(q.direction, VSub(TargetOf(q), q.circle.position))) > 0

\* signed area of (center - a, b - a): its sign is the side of the line
SideArea(q) == cross_2d(VSub(q.circle.position, q.segment.a), VSub(q.segment.b, q.segment.a))

\* rate at which the displacement changes that area
SweepArea(q) == cross_2d(q.direction, VSub(q.segment.b, q.segment.a))

ApproachesLine(q) ==
    /\ Sign(SideArea(q)) # 0
    /\ Sign(SweepArea(q)) = -Sign(SideArea(q))

\* the center is within or at the radius of the segment's infinite line
InBandOfLine(q) ==
    Le(Square(SideArea(q)),
       Mul(Square(q.circle.radius), magnitude2(VSub(q.segment.b, q.segment.a))))

AbsNum(x) == IF Sign(x) < 0 THEN Neg(x) ELSE x

\* the times at which the swept center is at distance radius from the
\* infinite line, on the near side and on the far side (SweepArea # 0)
NearTime(q) ==
    Div(Sub(AbsNum(SideArea(q)),
            Mul(q.circle.radius, Sqrt(magnitude2(VSub(q.segment.b, q.segment.a))))),
        AbsNum(SweepArea(q)))

FarTime(q) ==
    Div(Add(AbsNum(SideArea(q)),
            Mul(q.circle.radius, Sqrt(magnitude2(VSub(q.segment.b, q.segment.a))))),
        AbsNum(SweepArea(q)))

\* the swept center at time t projects into [0, len^2] of the segment
ProjectsOnSegment(q, t) ==
    LET p == VAdd(q.circle.position, VScale(t, q.direction))
        u == dot(VSub(p, q.segment.a), VSub(q.segment.b, q.segment.a))
    IN  Sign(u) >= 0 /\ Le(u, magnitude2(VSub(q.segment.b, q.segment.a)))

IsPenetrationCall ==
    call.fn \in {"circle_point", "point_circle", "circle_circle", "circle_line", "point_line"}

(***************************************************************************)
(* Properties of the penetration-time primitives                           *)
(***************************************************************************)
\* C1 as stated: every primitive returns None or Some(t) with 0 <= t <= 1.
C1_TimeInUnitInterval ==
    (Returned /\ IsPenetrationCall /\ ret # None) =>
        (Sign(TimeOf(ret)) >= 0 /\ Le(TimeOf(ret), One))

\* C1 amended: every primitive returns None or Some(t) with t >= 0; the time
\* is in units of the displacement and is not clipped to 1.
C1_TimeNonNegative ==
    (Returned /\ IsPenetrationCall /\ ret # None) => Sign(TimeOf(ret)) >= 0

\* a hit beyond the displacement: the time returned exceeds 1
C1_Witness ==
    /\ Returned
    /\ call.fn = "circle_line"
    /\ ret # None
    /\ Gt(TimeOf(ret), One)

\* C2 as stated: circle_point, circle_circle and circle_line return time 0
\* if and only if the circle overlaps the target at the start of the step.
C2_ZeroIffOverlap ==
    (Returned /\ call.fn \in {"circle_point", "circle_circle", "circle_line"}) =>
        ((ret = Some(Zero)) <=> Overlaps(call))

\* C2 amended: circle_point and circle_circle return time 0 if and only if
\* the target is within or at the (summed) radius and the displacement has a
\* positive component toward it; circle_line returns time 0 if and only if
\* the displacement approaches the segment's infinite line, the center is
\* within or at the radius of that line, and the point where the swept center
\* entered that band projects onto the segment.
C2_ZeroIffApproachingOverlap ==
    /\ (Returned /\ call.fn \in {"circle_point", "circle_circle"}) =>
           ((ret = Some(Zero)) <=> (Touches(call) /\ MovesToward(call)))
    /\ (Returned /\ call.fn = "circle_line") =>
           ((ret = Some(Zero)) <=>
                (/\ ApproachesLine(call)
                 /\ InBandOfLine(call)
                 /\ ProjectsOnSegment(call, NearTime(call))))

\* an overlapping circle that moves away from the segment gets no time at all
C2_Witness ==
    /\ Returned
    /\ call.fn = "circle_line"
    /\ Overlaps(call)
    /\ ~is_zero(call.direction)
    /\ ret = None

C10_ZeroDirectionNone ==
    (Returned /\ call.fn \in {"circle_line", "circle_point"} /\ is_zero(call.direction))
        => ret = None

\* a zero-length sweep of a circle that overlaps its target
C10_Witness ==
    /\ Returned
    /\ call.fn \in {"circle_line", "circle_point"}
    /\ is_zero(call.direction)
    /\ Overlaps(call)
    /\ ret = None

(***************************************************************************)
(* Properties of the systems                                               *)
(***************************************************************************)
\* a pass of collision_system has just ended
AfterPass == schedule = "First" /\ frame > 0

\* the sum of the amounts of the events sent for entity e and not yet read
RECURSIVE PendingFor(_, _)
PendingFor(e, i) ==
    IF i > Len(knockback_events) THEN VZero
    ELSE IF knockback_events[i].entity = e
    THEN VAdd(knockback_events[i].amount, PendingFor(e, i + 1))
    ELSE PendingFor(e, i + 1)

\* the displacement movable m intends in a frame of length dt
IntendedMovement(m, dt) ==
    VAdd(VScale(dt, IF m.velocity # <<>> THEN m.velocity[1] ELSE VZero),
         IF m.knockback # <<>>
         THEN VScale(m.knockback[1].resistance_as_scale, m.knockback[1].amount)
         ELSE VZero)

\* C9: for every entity with a Knockbackable, the amounts of all events sent
\* for it are, each exactly once, either still unread, in its accumulated
\* amount, or consumed by a pass of collision_system (events for other
\* entities and for entities without Knockbackable change nothing); a pass
\* of collision_system leaves every accumulated amount zero and has moved
\* the entity by velocity * dt + amount * resistance.
C9_KnockbackExactlyOnce ==
    /\ \A i \in 1..Len(movables) :
        movables[i].knockback # <<>> =>
            VEq(sent[movables[i].entity],
                VAdd(VAdd(drained[movables[i].entity], AmountOf(movables[i])),
                     PendingFor(movables[i].entity, 1)))
    /\ AfterPass =>
        \A i \in 1..Len(movables) :
            /\ is_zero(AmountOf(movables[i]))
            /\ VEq(xz(movables[i].position),
                   VAdd(xz(previous[i].position),
                        IntendedMovement(previous[i], delta_seconds)))

\* two different events for the enemy were read in one batch and consumed by
\* the first pass, scaled by its resistance 1/2
C9_Witness ==
    /\ AfterPass
    /\ frame = 1
    /\ Len(movables) = 3
    /\ drained[2] = vec2(-1, 2)
    /\ sent[2] = vec2(-1, 2)
    /\ xz(movables[2].position) = Vec(Rat(15, 2), Whole(1))
    /\ is_zero(AmountOf(movables[2]))

(***************************************************************************)
(* A mover and one wall: the resolution of a tick                          *)
(***************************************************************************)
\* the pass just run moved one entity with a velocity in a level of one wall
WallTick ==
    /\ AfterPass
    /\ Len(previous) = 1
    /\ previous[1].velocity # <<>>
    /\ Len(static_objects) = 1
    /\ Len(static_objects[1].lines) = 1

TheWall == static_objects[1].lines[1]

\* the sweep the pass began with: the collider, the wall, the displacement
WallSweep ==
    [fn |-> "circle_line",
     circle |-> Circle(xz(previous[1].position), previous[1].radius),
     segment |-> TheWall,
     direction |-> IntendedMovement(previous[1], delta_seconds)]

\* the collider after the pass, with the same wall
WallRest ==
    [fn |-> "circle_line",
     circle |-> Circle(xz(movables[1].position), movables[1].radius),
     segment |-> TheWall,
     direction |-> VZero]

\* the center's path from start to intended end crosses the wall segment
\* between its ends
CrossesWall(q) ==
    LET end == [q EXCEPT !.circle.position = VAdd(q.circle.position, q.direction)]
        sa  == Sign(cross_2d(q.direction, VSub(q.segment.a, q.circle.position)))
        sb  == Sign(cross_2d(q.direction, VSub(q.segment.b, q.circle.position)))
    IN  /\ Sign(SideArea(q)) # 0
        /\ Sign(SideArea(end)) = -Sign(SideArea(q))
        /\ sa # 0 /\ sb = -sa

\* the entity does not yet touch the wall and its displacement would cross it
MovesIntoWall ==
    /\ WallTick
    /\ Gt(SegmentDist2(WallSweep.circle.position, TheWall),
          Square(WallSweep.circle.radius))
    /\ CrossesWall(WallSweep)

\* stopped at the wall: at distance radius from its line, on the side it
\* came from
StoppedAtWall ==
    /\ Sign(SideArea(WallRest)) = Sign(SideArea(WallSweep))
    /\ Eq(Square(SideArea(WallRest)),
          Mul(Square(WallRest.circle.radius), len2(TheWall)))

NormalVelocityZero ==
    Sign(cross_2d(movables[1].velocity[1], direction_of(TheWall))) = 0

AlongVelocityKept ==
    Eq(dot(movables[1].velocity[1], direction_of(TheWall)),
       dot(previous[1].velocity[1], direction_of(TheWall)))

\* the collider first meets the wall on its face: where the center comes to
\* the distance radius from the wall's line, it projects onto the segment
MeetsFaceFirst ==
    /\ IsRational(Sqrt(len2(TheWall)))
    /\ ProjectsOnSegment(WallSweep, NearTime(WallSweep))

SceneEntities ==
    {movables[i].entity : i \in 1..Len(movables)}
        \cup {static_objects[i].entity : i \in 1..Len(static_objects)}

\* the (t, entity) hits of the ray of the call on the colliders of entity e,
\* by the primitives alone
HitsOn(e) ==
    { <<TimeOf(penetration_time_point_circle(
                   call.point, Circle(xz(movables[i].position), movables[i].radius),
                   call.direction)), e>> :
        i \in { j \in 1..Len(movables) :
                  /\ movables[j].entity = e
                  /\ penetration_time_point_circle(
                         call.point, Circle(xz(movables[j].position), movables[j].radius),
                         call.direction) # None } }
    \cup
    UNION { { <<TimeOf(penetration_time_point_line(
                           call.point, static_objects[i].lines[l], call.direction)), e>> :
                l \in { k \in 1..Len(static_objects[i].lines) :
                          penetration_time_point_line(
                              call.point, static_objects[i].lines[k], call.direction)
                              # None } } :
            i \in { j \in 1..Len(static_objects) : static_objects[j].entity = e } }

Ignored == {call.ignores[i] : i \in 1..Len(call.ignores)}

HitsNotIgnored == UNION {HitsOn(e) : e \in SceneEntities \ Ignored}

RayReturned == pc = "return" /\ call.fn = "raycast"

\* C7: raycast returns None when no collider of an entity not ignored is hit;
\* otherwise it returns (t, entity) where t is the least of the hit times of
\* the circles (penetration_time_point_circle) and of the segments
\* (penetration_time_point_line) of the entities not ignored, and entity is
\* one that is hit at that time.
C7_RaycastMinimum ==
    RayReturned =>
        /\ ret = <<>> <=> HitsNotIgnored = {}
        /\ ret # <<>> =>
              /\ ret[1] \in HitsNotIgnored
              /\ \A h \in HitsNotIgnored : Le(ret[1][1], h[1])

\* a ray that hits several entities not ignored at different times
C7_Witness ==
    /\ RayReturned
    /\ ret # <<>>
    /\ \E h \in HitsNotIgnored : h[2] # ret[1][2] /\ Lt(ret[1][1], h[1])
    /\ \E h \in HitsNotIgnored : h[2] \in {movables[i].entity : i \in 1..Len(movables)}
    /\ \E h \in HitsNotIgnored :
           h[2] \in {static_objects[i].entity : i \in 1..Len(static_objects)}

\* C8: the entity raycast returns is never in ignores, also when the origin
\* is inside or on that entity's collider and it would be hit at t = 0; and
\* every hit on an entity that is not ignored still bounds the result: the
\* ray returns a hit no later than it.
C8_IgnoresRespected ==
    RayReturned =>
        /\ ret # <<>> => ret[1][2] \notin Ignored
        /\ \A e \in SceneEntities \ Ignored : \A h \in HitsOn(e) :
              ret # <<>> /\ Le(ret[1][1], h[1])

\* the origin is within the collider of an ignored entity, which alone would
\* be hit at t = 0, and the ray returns another entity behind it
C8_Witness ==
    /\ RayReturned
    /\ ret # <<>>
    /\ ret[1][2] \notin Ignored
    /\ Sign(ret[1][1]) > 0
    /\ \E e \in Ignored : \E h \in HitsOn(e) : Sign(h[1]) = 0

(***************************************************************************)
(* Two circles whose gap equals the displacement                           *)
(***************************************************************************)
\* the pass just run began with circles of radius 1 at (0,0) and (3,0), the
\* first with velocity (1,0) and no knockback, the second at rest, dt = 1
BoundaryDuel ==
    /\ AfterPass
    /\ Len(previous) = 2
    /\ static_objects = <<>>
    /\ delta_seconds = One
    /\ xz(previous[1].position) = vec2(0, 0)
    /\ previous[1].radius = One
    /\ previous[1].velocity = <<vec2(1, 0)>>
    /\ AmountOf(previous[1]) = VZero
    /\ xz(previous[2].position) = vec2(3, 0)
    /\ previous[2].radius = One
    /\ previous[2].velocity = <<VZero>>

\* C6: with circles of radius 1 at (0,0) and (3,0) and the first moving with
\* velocity (1,0) for dt = 1, the tick resolves as no collision: the mover
\* is at (1,0) afterwards and its velocity is still (1,0).
C6_BoundaryNoCollision ==
    BoundaryDuel =>
        /\ xz(movables[1].position) = vec2(1, 0)
        /\ movables[1].velocity = <<vec2(1, 0)>>

(***************************************************************************)
(* Properties of MeshCollider::from                                        *)
(***************************************************************************)
\* the points of the collision plane the vertices of a triangle project to
ProjectedPoints(mesh, triangle) ==
    { Vec(f32_value(mesh.vertices[triangle[k]].pos.x),
          f32_value(mesh.vertices[triangle[k]].pos.z)) : k \in 1..Len(triangle) }

\* the unordered pairs of distinct points of a set: k * (k - 1) / 2 of them
PairsOf(points) == {pair \in SUBSET points : Cardinality(pair) = 2}

RECURSIVE PairCount(_, _, _)
PairCount(mesh, triangles, i) ==
    IF i > Len(triangles) THEN 0
    ELSE Cardinality(PairsOf(ProjectedPoints(mesh, triangles[i])))
            + PairCount(mesh, triangles, i + 1)

MeshReturned == pc = "return" /\ call.fn = "mesh_collider_from"

TrianglesOfCall == chunks(call.mesh.indices, 1)

\* C11: MeshCollider::from(mesh) yields, for each triangle, one segment per
\* unordered pair of distinct xz-projected vertex positions (3 segments for
\* three distinct projected points, 1 for two, 0 for one), and no segment of
\* the list has coincident endpoints.
C11_MeshSegments ==
    MeshReturned =>
        /\ Len(ret) = PairCount(call.mesh, TrianglesOfCall, 1)
        /\ \A i \in 1..Len(TrianglesOfCall) :
               \A pair \in PairsOf(ProjectedPoints(call.mesh, TrianglesOfCall[i])) :
                   \E k \in 1..Len(ret) : {ret[k].a, ret[k].b} = pair
        /\ \A k \in 1..Len(ret) : ret[k].a # ret[k].b

\* the part of C11 the code keeps: no segment has coincident endpoints, and
\* every pair of distinct projected points of a triangle has a segment
C11_NoCoincidentEndpoints ==
    MeshReturned =>
        /\ \A i \in 1..Len(TrianglesOfCall) :
               \A pair \in PairsOf(ProjectedPoints(call.mesh, TrianglesOfCall[i])) :
                   \E k \in 1..Len(ret) : {ret[k].a, ret[k].b} = pair
        /\ \A k \in 1..Len(ret) : ret[k].a # ret[k].b

(***************************************************************************)
(* Properties of a pass of collision_system                                *)
(***************************************************************************)
\* the step is a pass of collision_system
PassStep == schedule = "Update" /\ schedule' = "First"

\* what a pass leaves of movable i: its id, its radius, its height, the
\* components it has and the resistance of its Knockbackable
KeptByPass(i) ==
    /\ movables'[i].entity = movables[i].entity
    /\ movables'[i].radius = movables[i].radius
    /\ movables'[i].position.y = movables[i].position.y
    /\ Len(movables'[i].velocity) = Len(movables[i].velocity)
    /\ Len(movables'[i].knockback) = Len(movables[i].knockback)
    /\ movables[i].knockback # <<>> =>
           movables'[i].knockback[1].resistance_as_scale
               = movables[i].knockback[1].resistance_as_scale

\* C12: collision_system changes only the x and z components of the
\* Position of the movables, their Velocity and the amount of their
\* Knockbackable: the height y of every Position is the same after the pass
\* as before, and the static objects and their segments are not modified.
C12_OnlyGroundPlane ==
    [][PassStep =>
          /\ Len(movables') = Len(movables)
          /\ \A i \in 1..Len(movables) : KeptByPass(i)
          /\ static_objects' = static_objects]_vars

\* a pass moved an entity above the ground plane along x or z, in a level
\* with a wall, and left its height
C12_Witness ==
    /\ AfterPass
    /\ static_objects # <<>>
    /\ \E i \in 1..Len(movables) :
           /\ Sign(previous[i].position.y) > 0
           /\ movables[i].position.y = previous[i].position.y
           /\ xz(movables[i].position) # xz(previous[i].position)
           /\ movables[i].velocity # previous[i].velocity

(***************************************************************************)
(* Properties of get_first_collision                                       *)
(***************************************************************************)
FirstReturned == pc = "return" /\ call.fn = "get_first_collision"

\* the quadratic penetration_time_circle_line solves for a sweep
CylinderQuadraticOf(circle, seg, direction) ==
    cylinder_quadratic(circle, seg,
                       cross_2d(direction, direction_of(seg)),
                       cross_2d(VSub(circle.position, seg.a), direction_of(seg)))

\* the quadratic penetration_time_circle_point solves for a sweep
PointQuadraticOf(circle, point, direction) ==
    circle_point_quadratic(circle, direction, VSub(point, circle.position))

\* the segments of all static objects
AllSegments ==
    UNION { {static_objects[i].lines[j] : j \in 1..Len(static_objects[i].lines)} :
              i \in 1..Len(static_objects) }

\* the bounds of the other movables of the query
OtherCircles ==
    { Circle(xz(movables[i].position), movables[i].radius) :
        i \in (1..Len(movables)) \ {call.movable_index} }

\* a failure of solve_quadratic becomes None in the three tests
FailureIsNone(circle, direction) ==
    /\ \A s \in AllSegments :
         /\ ~CylinderQuadraticOf(circle, s, direction).ok
                => penetration_time_circle_line(circle, s, direction) = None
         /\ ~PointQuadraticOf(circle, s.a, direction).ok
                => penetration_time_circle_point(circle, s.a, direction) = None
    /\ \A o \in OtherCircles :
         ~PointQuadraticOf(Circle(circle.position, Add(circle.radius, o.radius)),
                           o.position, direction).ok
             => penetration_time_circle_circle(circle, direction, o) = None

\* a time that is a number: a quotient with a positive denominator
IsNumber(t) == t.m > 0

\* C13: the collision subsystem has no fatal error path for finite inputs: a
\* failure of solve_quadratic (a = b = c = 0) is turned into None by
\* penetration_time_circle_line and penetration_time_circle_point, and
\* get_first_collision always yields a result, a time that is a number with
\* a Collision, since the (1.0, None) that ends the chain keeps the
\* candidates non-empty.
C13_NoFatalPath ==
    /\ FirstReturned =>
           /\ ret[2].kind \in {"None", "WithCircle", "WithLineSegment", "WithPoint"}
           /\ IsNumber(ret[1])
           /\ FailureIsNone(call.circle, call.direction)
    /\ (pc = "return" /\ call.fn = "circle_line") =>
           /\ ret = None \/ IsNumber(ret[1])
           /\ ~CylinderQuadraticOf(call.circle, call.segment, call.direction).ok
                  => ret = None

\* penetration_time_circle_line went past its early-outs towards a segment
\* of length zero, solve_quadratic failed and the result is None
C13_Witness ==
    /\ pc = "return"
    /\ call.fn = "circle_line"
    /\ ~is_zero(call.direction)
    /\ Sign(dot(line_get_normal_scaled(call.segment, call.circle.position),
                call.direction)) < 0
    /\ ~CylinderQuadraticOf(call.circle, call.segment, call.direction).ok
    /\ ret = None

(***************************************************************************)
(* Relations between the penetration-time primitives                       *)
(***************************************************************************)
\* C14: penetration_time_point_circle(p, c, d) equals
\* penetration_time_circle_point(c, p, -d) for all points p, circles c and
\* directions d.
C14_PointCircleSymmetry ==
    (pc = "return" /\ call.fn = "point_circle") =>
        ret = penetration_time_circle_point(call.circle, call.point,
                                            VNeg(call.direction))

\* a point that meets a circle after a positive time, and that the circle
\* swept along the same direction would not meet
C14_Witness ==
    /\ pc = "return"
    /\ call.fn = "point_circle"
    /\ ret # None
    /\ Sign(ret[1]) > 0
    /\ penetration_time_circle_point(call.circle, call.point, call.direction) = None

\* C15: penetration_time_circle_circle(A, d, B) equals
\* penetration_time_circle_point(Circle{A.position, A.radius + B.radius},
\* B.position, d) for all circles A, B and directions d.
C15_CircleCircleReduction ==
    (pc = "return" /\ call.fn = "circle_circle") =>
        ret = penetration_time_circle_point(
                  Circle(call.circle.position,
                         Add(call.circle.radius, call.other.radius)),
                  call.other.position, call.direction)

\* two circles that meet after a positive time, earlier than the moving
\* circle alone would meet the center of the other
C15_Witness ==
    /\ pc = "return"
    /\ call.fn = "circle_circle"
    /\ ret # None
    /\ Sign(ret[1]) > 0
    /\ ret # penetration_time_circle_point(call.circle, call.other.position,
                                           call.direction)

(***************************************************************************)
(* Properties of the sub-steps of the resolution loop                      *)
(***************************************************************************)
\* C16: in every sub-step of the resolution loop the sweep query is issued
\* from the entity's current position: the Circle passed to
\* get_first_collision is centered at the position reached after the
\* advances of all previous sub-steps of this tick, not at the position the
\* entity had at the start of the tick.
C16_QueryFromCurrentPosition ==
    AfterPass =>
        \A i \in 1..Len(queries) : \A k \in 1..Len(queries[i]) :
            queries[i][k].circle.position = xz(queries[i][k].position)

(***************************************************************************)
(* The candidates of get_first_collision                                   *)
(***************************************************************************)
\* test is None or later than time t
NotBefore(test, t) == test = None \/ Gt(test[1], t)

\* the sweep of the call meets end b of segment s at time t < 1 and nothing
\* else by then: no segment, no end a, no end b of another segment and no
\* other circle
SweepsOnlyInto(s, t) ==
    /\ Lt(t, One)
    /\ \A o \in AllSegments :
         /\ NotBefore(penetration_time_circle_line(call.circle, o, call.direction), t)
         /\ NotBefore(penetration_time_circle_point(call.circle, o.a, call.direction), t)
         /\ o.b # s.b =>
                NotBefore(penetration_time_circle_point(call.circle, o.b,
                                                        call.direction), t)
    /\ \A o \in OtherCircles :
         NotBefore(penetration_time_circle_circle(call.circle, call.direction, o), t)

\* the test of end b of segment s is a candidate of the call returned, and
\* it is the result when the sweep meets only that end
EndTested(s, test) ==
    test # None =>
        /\ Le(ret[1], test[1])
        /\ SweepsOnlyInto(s, test[1]) => ret = <<test[1], WithPoint(s.b)>>

\* C17: for every segment (a, b) of every static mesh collider,
\* get_first_collision evaluates three candidates, the segment, end a and
\* end b; so a circle that sweeps only into end b is reported as a
\* WithPoint collision at b with the time of impact against b.
C17_BothEndpointsTested ==
    FirstReturned =>
        \A s \in AllSegments :
            EndTested(s, penetration_time_circle_point(call.circle, s.b,
                                                       call.direction))

\* the times of a set of tests: those that are Some
TimesOf(tests) == {test[1] : test \in tests \ {None}}

\* the times of the tests get_first_collision makes in the source
EvaluatedTimes ==
    TimesOf({penetration_time_circle_line(call.circle, s, call.direction) :
                 s \in AllSegments}
            \cup {penetration_time_circle_point(call.circle, s.a, call.direction) :
                      s \in AllSegments}
            \cup {penetration_time_circle_circle(call.circle, call.direction, o) :
                      o \in OtherCircles})

\* the times of all candidates: every segment, both its ends, every other
\* circle
CandidateTimes ==
    EvaluatedTimes
        \cup TimesOf({penetration_time_circle_point(call.circle, s.b, call.direction) :
                          s \in AllSegments})

\* the result returned is the minimum of 1.0 and times, within [0, 1], and
\* is Collision::None only if no time is at most 1.0
IsMinimumOf(times) ==
    /\ \A t \in times \cup {One} : Le(ret[1], t)
    /\ \E t \in times \cup {One} : Eq(ret[1], t)
    /\ Sign(ret[1]) >= 0
    /\ Le(ret[1], One)
    /\ ret[2].kind = "None" => \A t \in times : Gt(t, One)

\* C18: get_first_collision returns (t, c) where t is the minimum of 1.0
\* and the times of all static and dynamic candidates, so t is within
\* [0, 1]; c is Collision::None only if no candidate has a time of at most
\* 1.0.
C18_MinimumOfCandidates == FirstReturned => IsMinimumOf(CandidateTimes)

\* the same over the tests the source makes: the minimum, the fallback
\* (1.0, None) and the order of the chain are as C18 says
C18_MinimumOfEvaluated == FirstReturned => IsMinimumOf(EvaluatedTimes)

\* the rest of C18: a sub-step whose result is Collision::None has time 1.0
\* and advances the entity by its whole remaining movement
C18_NoneAdvancesWhole ==
    AfterPass =>
        \A i \in 1..Len(queries) : \A k \in 1..Len(queries[i]) :
            queries[i][k].collision.kind = "None" =>
                /\ queries[i][k].time = One
                /\ xz(queries[i][k].reached)
                       = VAdd(xz(queries[i][k].position), queries[i][k].direction)
                /\ is_zero(queries[i][k].remaining)

(***************************************************************************)
(* The sliding response of a sub-step                                      *)
(***************************************************************************)
\* the part of w across the direction d of a line: w - ((w.d) / (d.d)) d
Across(w, d) == VSub(w, VDiv(VScale(dot(w, d), d), dot(d, d)))

\* the contact normal of the collision of sub-step q at the position reached
ContactNormal(q) ==
    IF q.collision.kind = "WithCircle"
    THEN VSub(xz(q.reached), q.collision.circle.position)
    ELSE IF q.collision.kind = "WithPoint"
    THEN VSub(xz(q.reached), q.collision.point)
    ELSE Across(VSub(xz(q.reached), q.collision.line_segment.a),
                VSub(q.collision.line_segment.b, q.collision.line_segment.a))

\* a quarter turn of n: the tangent of the contact
Tangent(n) == Vec(Neg(n.y), n.x)

\* after is before without its component along normal n
SlidAlong(before, after, n) ==
    /\ Sign(dot(after, n)) = 0
    /\ dot(after, Tangent(n)) = dot(before, Tangent(n))

\* the sliding response of sub-step q
Slides(q) ==
    IF q.collision.kind = "None"
    THEN q.movement = q.remaining /\ q.tracked_velocity = q.velocity
    ELSE /\ q.remaining = VScale(Sub(One, q.time), q.direction)
         /\ SlidAlong(q.remaining, q.movement, ContactNormal(q))
         /\ SlidAlong(q.velocity, q.tracked_velocity, ContactNormal(q))

\* the Velocity of movable i after the pass is the tracked velocity of its
\* last sub-step, or the one it had when it made none
WrittenBack(i) ==
    IF movables[i].velocity = <<>> THEN previous[i].velocity = <<>>
    ELSE IF queries[i] = <<>> THEN movables[i].velocity = previous[i].velocity
    ELSE movables[i].velocity = <<queries[i][Len(queries[i])].tracked_velocity>>

\* C19: after each sub-step in which get_first_collision returns a real
\* collision (circle, line segment or point), the remaining movement and the
\* tracked velocity have zero component along the contact normal evaluated
\* at the new position and their tangential components are unchanged; when
\* the result is Collision::None both are left unchanged.  The tracked
\* velocity is written back to the Velocity of the entity at the end of the
\* tick.
C19_SlidingResponse ==
    AfterPass =>
        \A i \in 1..Len(queries) :
            /\ \A k \in 1..Len(queries[i]) : Slides(queries[i][k])
            /\ WrittenBack(i)

\* a sub-step met a wall or a circle with a velocity that had components
\* along and across the contact normal, and the pass wrote back the part
\* across it
C19_Witness ==
    /\ AfterPass
    /\ \E i \in 1..Len(queries) : \E k \in 1..Len(queries[i]) :
           /\ queries[i][k].collision.kind # "None"
           /\ Sign(dot(queries[i][k].velocity, ContactNormal(queries[i][k]))) # 0
           /\ ~is_zero(queries[i][k].tracked_velocity)
           /\ ~is_zero(queries[i][k].movement)
           /\ movables[i].velocity = <<queries[i][Len(queries[i])].tracked_velocity>>

(***************************************************************************)
(* The number of sub-steps of a tick                                       *)
(***************************************************************************)
\* a squared magnitude n / m below 0.0001^2 = 1 / 10^8
BelowSquare(m2) == m2.n <= 0 \/ 100000000 <= (m2.m - 1) \div m2.n

BelowThreshold(v) == BelowSquare(magnitude2(v))

\* the sub-steps of one entity: each is made with the movement left by the
\* one before, the first with the intended displacement, none with a
\* movement below the threshold, and the last of fewer than five leaves a
\* movement below it
SubStepsBounded(log, intended) ==
    /\ Len(log) <= 5
    /\ \A k \in 1..Len(log) :
         /\ ~BelowThreshold(log[k].direction)
         /\ log[k].direction = (IF k = 1 THEN intended ELSE log[k - 1].movement)
    /\ (Len(log) > 0 /\ Len(log) < 5) => BelowThreshold(log[Len(log)].movement)
    /\ BelowThreshold(intended) <=> log = <<>>

\* C20: for each movable entity, collision_system performs at most 5
\* sub-steps (calls of get_first_collision) per tick and stops earlier as
\* soon as the remaining movement has squared magnitude below 0.0001^2; an
\* entity whose intended displacement is below that threshold is not moved
\* and no collision query is made for it.
C20_BoundedSubSteps ==
    AfterPass =>
        \A i \in 1..Len(queries) :
            /\ SubStepsBounded(queries[i], IntendedMovement(previous[i], delta_seconds))
            /\ queries[i] = <<>> => movables[i].position = previous[i].position

\* a pass in which one entity made all five sub-steps, each of the first
\* four leaving a movement that is not below the threshold
C20_Witness ==
    /\ AfterPass
    /\ \E i \in 1..Len(queries) :
           /\ Len(queries[i]) = 5
           /\ \A k \in 1..4 : ~BelowThreshold(queries[i][k].movement)

\* a pass in which an entity with a displacement below the threshold, not
\* zero, was left where it was
C20_CreepWitness ==
    /\ AfterPass
    /\ \E i \in 1..Len(queries) :
           /\ queries[i] = <<>>
           /\ ~is_zero(IntendedMovement(previous[i], delta_seconds))
           /\ movables[i].position = previous[i].position

(***************************************************************************)
(* The knockback a pass consumes                                           *)
(***************************************************************************)
\* the pass found entity i with a knockback accumulated that is not zero
HadKnockback(i) == previous[i].knockback # <<>> /\ ~is_zero(AmountOf(previous[i]))

\* C21: a pass of collision_system starts the resolution of each entity
\* with movement = velocity * dt + amount * resistance_as_scale and leaves
\* the amount of every Knockbackable of a movable zero, also when that
\* movement is below the threshold (no query is made) or is blocked at time
\* 0; the Knockbackable itself and its resistance stay; with no event in
\* between, the next pass finds the amount zero, so that an amount is part
\* of the movement of one tick only.
C21_KnockbackConsumed ==
    AfterPass =>
        \A i \in 1..Len(movables) :
            /\ queries[i] # <<>> =>
                   queries[i][1].direction = IntendedMovement(previous[i], delta_seconds)
            /\ queries[i] = <<>> <=>
                   BelowThreshold(IntendedMovement(previous[i], delta_seconds))
            /\ (movables[i].knockback = <<>>) <=> (previous[i].knockback = <<>>)
            /\ movables[i].knockback # <<>> =>
                   /\ movables[i].knockback[1].amount = VZero
                   /\ movables[i].knockback[1].resistance_as_scale
                          = previous[i].knockback[1].resistance_as_scale
            /\ frame >= 2 => is_zero(AmountOf(previous[i]))

\* a knockback into a wall the entity touches: the first query is blocked at
\* time 0, the entity stays where it was, and the amount is zero afterwards
C21_Witness ==
    /\ AfterPass
    /\ \E i \in 1..Len(movables) :
           /\ HadKnockback(i)
           /\ is_zero(velocity_of(previous[i]))
           /\ queries[i] # <<>>
           /\ queries[i][1].time = Zero
           /\ movables[i].position = previous[i].position
           /\ movables[i].knockback[1].amount = VZero

\* a knockback below the threshold: no query is made, and the amount is zero
\* afterwards
C21_CreepWitness ==
    /\ AfterPass
    /\ \E i \in 1..Len(movables) :
           /\ HadKnockback(i)
           /\ queries[i] = <<>>
           /\ movables[i].knockback[1].amount = VZero

(***************************************************************************)
(* The dynamic candidates of get_first_collision                           *)
(***************************************************************************)
\* the bound of the movable at index i of the query, where it is now
BoundOf(i) == Circle(xz(movables[i].position), movables[i].radius)

OtherIndices == (1..Len(movables)) \ {call.movable_index}

\* C22: get_first_collision never reports the collider of the moving entity
\* itself: a WithCircle it returns is the bound, at its current position, of
\* a movable at another index of the query, with the time
\* penetration_time_circle_circle gives for it, and no other movable has an
\* earlier time.
C22_NeverOwnCollider ==
    FirstReturned =>
        /\ ret[2].kind = "WithCircle" =>
               /\ ret[2].circle # BoundOf(call.movable_index)
               /\ \E i \in OtherIndices :
                      /\ ret[2].circle = BoundOf(i)
                      /\ penetration_time_circle_circle(
                             call.circle, call.direction, BoundOf(i)) = Some(ret[1])
        /\ \A i \in OtherIndices :
               \/ penetration_time_circle_circle(
                      call.circle, call.direction, BoundOf(i)) = None
               \/ Le(ret[1], TimeOf(penetration_time_circle_circle(
                                        call.circle, call.direction, BoundOf(i))))

\* the query of an entity that has advanced from where circle_bound is, in
\* the direction of its own collider: the test of its own bound would give
\* time 0, and the result is another movable at a later time
C22_Witness ==
    /\ FirstReturned
    /\ call.movable_index = 2
    /\ penetration_time_circle_circle(call.circle, call.direction,
                                      BoundOf(call.movable_index)) = Some(Zero)
    /\ ret[2].kind = "WithCircle"
    /\ ret[2].circle = BoundOf(1)
    /\ Sign(ret[1]) > 0

(***************************************************************************)
(* The roots penetration_time_circle_point selects from                    *)
(***************************************************************************)
\* the real roots t, ascending, of |circle.position + t * direction -
\* point|^2 = radius^2 for a direction that is not zero, from
\* t = (h +- sqrt(h^2 - a * c)) / a with a = |direction|^2,
\* h = direction . (point - position), c = |point - position|^2 - radius^2
SweepRootsFrom(a, h, c) ==
    IF Sign(Sub(Square(h), Mul(a, c))) < 0 THEN <<>>
    ELSE IF Sign(Sub(Square(h), Mul(a, c))) = 0 THEN <<Div(h, a)>>
    ELSE << Div(Sub(h, Sqrt(Sub(Square(h), Mul(a, c)))), a),
            Div(Add(h, Sqrt(Sub(Square(h), Mul(a, c)))), a) >>

SweepRoots(q) ==
    SweepRootsFrom(magnitude2(q.direction),
                   dot(q.direction, VSub(q.point, q.circle.position)),
                   Sub(magnitude2(VSub(q.point, q.circle.position)),
                       Square(q.circle.radius)))

Straddle(roots) == Len(roots) = 2 /\ Sign(roots[1]) < 0 /\ Sign(roots[2]) >= 0

\* ret is the smallest of the roots that is not negative, None without one
IsSmallestNonNegative(roots) ==
    IF \A k \in 1..Len(roots) : Sign(roots[k]) < 0 THEN ret = None
    ELSE /\ ret # None
         /\ \E k \in 1..Len(roots) :
                /\ Eq(TimeOf(ret), roots[k])
                /\ Sign(roots[k]) >= 0
                /\ \A j \in 1..Len(roots) : Sign(roots[j]) < 0 \/ Le(roots[k], roots[j])

SelectsRoot(roots) ==
    IF Straddle(roots) THEN ret = Some(Zero) ELSE IsSmallestNonNegative(roots)

IsCirclePointReturn ==
    Returned /\ call.fn = "circle_point" /\ ~is_zero(call.direction)

\* C23 as stated: penetration_time_circle_point returns Some(0.0) when both
\* roots of |circle.position + t * direction - point|^2 = radius^2 exist and
\* the first is negative and the second is not, and otherwise the smallest
\* root that is not negative, or None when there is none.
C23_RootSelection ==
    IsCirclePointReturn => SelectsRoot(SweepRoots(call))

\* C23 amended: the same, for a direction with a positive component along
\* point - circle.position; for any other direction the result is None
\* whatever the roots are.
C23_RootSelectionWhenApproaching ==
    IsCirclePointReturn =>
        IF MovesToward(call) THEN SelectsRoot(SweepRoots(call)) ELSE ret = None

\* a circle that holds the point and moves so that the point stays in its
\* path: the roots are on both sides of zero and the time is 0
C23_Witness ==
    /\ IsCirclePointReturn
    /\ MovesToward(call)
    /\ Straddle(SweepRoots(call))
    /\ Sign(SweepRoots(call)[2]) > 0
    /\ ret = Some(Zero)

\* a circle ahead of which the point lies: two roots that are positive, and
\* the time is the first
C23_AheadWitness ==
    /\ IsCirclePointReturn
    /\ Len(SweepRoots(call)) = 2
    /\ Sign(SweepRoots(call)[1]) > 0
    /\ ~IsRational(SweepRoots(call)[1])
    /\ ret # None
    /\ Eq(TimeOf(ret), SweepRoots(call)[1])

\* C24: penetration_time_circle_point returns None whenever direction has no
\* positive component along point - circle.position (the circle moves away
\* from the point, tangentially to it, or not at all, also when it holds the
\* point), and it returns a time only when the circle moves toward the point.
C24_NotInPathNone ==
    (Returned /\ call.fn = "circle_point") =>
        /\ Sign(dot(call.direction, VSub(call.point, call.circle.position))) <= 0
               => ret = None
        /\ ret # None
               => Sign(dot(call.direction, VSub(call.point, call.circle.position))) > 0

\* a circle that holds the point strictly inside and moves tangentially to
\* it: the roots are on both sides of zero and the result is None
C24_Witness ==
    /\ IsCirclePointReturn
    /\ Overlaps(call)
    /\ Sign(dot(call.direction, VSub(call.point, call.circle.position))) = 0
    /\ call.point # call.circle.position
    /\ Straddle(SweepRoots(call))
    /\ ret = None

(***************************************************************************)
(* The ray of penetration_time_point_line against the segment              *)
(***************************************************************************)
\* signed area of (point - a, b - a): zero on the segment's infinite line
PointSide(q) == cross_2d(VSub(q.point, q.segment.a), direction_of(q.segment))

\* rate at which the direction changes that area
PointSweep(q) == cross_2d(q.direction, direction_of(q.segment))

\* the direction approaches the line from the side the point is on
PointApproaches(q) ==
    Sign(PointSide(q)) # 0 /\ Sign(PointSweep(q)) = -Sign(PointSide(q))

\* the time at which point + t * direction is on the line (PointSweep # 0)
PointHitTime(q) == Div(AbsNum(PointSide(q)), AbsNum(PointSweep(q)))

\* a point of the infinite line lies between the ends of the segment
WithinSegment(seg, p) ==
    /\ Sign(dot(VSub(p, seg.a), direction_of(seg))) >= 0
    /\ Le(dot(VSub(p, seg.a), direction_of(seg)), len2(seg))

IsPointLineReturn == Returned /\ call.fn = "point_line"

\* C25: penetration_time_point_line: for a point on the segment's infinite
\* line the result is Some(0.0) when the point is within the finite segment
\* and None otherwise; for a point off the line the result is None when
\* direction does not approach the line, and otherwise Some(t) with
\* point + t * direction on the line when that hit point lies within the
\* finite segment, and None when it does not.
C25_PointLine ==
    IsPointLineReturn =>
        IF Sign(PointSide(call)) = 0
        THEN ret = (IF WithinSegment(call.segment, call.point) THEN Some(Zero) ELSE None)
        ELSE IF ~PointApproaches(call) THEN ret = None
        ELSE IF WithinSegment(call.segment,
                              VAdd(call.point,
                                   VScale(PointHitTime(call), call.direction)))
        THEN /\ ret # None
             /\ Eq(TimeOf(ret), PointHitTime(call))
             /\ Sign(cross_2d(VSub(VAdd(call.point,
                                         VScale(TimeOf(ret), call.direction)),
                                    call.segment.a),
                               direction_of(call.segment))) = 0
        ELSE ret = None

\* a ray that meets the infinite line beyond an end of the segment, after a
\* positive time: None
C25_Witness ==
    /\ IsPointLineReturn
    /\ PointApproaches(call)
    /\ Sign(PointHitTime(call)) > 0
    /\ ~WithinSegment(call.segment,
                      VAdd(call.point, VScale(PointHitTime(call), call.direction)))
    /\ ret = None

\* a ray that meets the segment between its ends at a time that is not a
\* whole number
C25_HitWitness ==
    /\ IsPointLineReturn
    /\ PointApproaches(call)
    /\ ret # None
    /\ TimeOf(ret).m > 1
    /\ Eq(TimeOf(ret), PointHitTime(call))

\* a point on the infinite line outside the segment: None whatever the
\* direction
C25_OnLineWitness ==
    /\ IsPointLineReturn
    /\ Sign(PointSide(call)) = 0
    /\ ~WithinSegment(call.segment, call.point)
    /\ ~is_zero(call.direction)
    /\ ret = None

(***************************************************************************)
(* The order in which a pass resolves the entities                         *)
(***************************************************************************)
\* the movables as entity i found them during the pass: those before it in
\* the query where the pass left them, the others as they were
SeenBy(i) == [j \in 1..Len(movables) |-> IF j < i THEN movables[j] ELSE previous[j]]

\* the Position of movable i after the pass is the one its last sub-step
\* reached, or the one it had when it made none
MovedInPlace(i) ==
    IF queries[i] = <<>> THEN movables[i].position = previous[i].position
    ELSE movables[i].position = queries[i][Len(queries[i])].reached

\* the result of sub-step k of entity i is the one get_first_collision gives
\* for the movables as entity i found them
ResultAmong(i, k, seen) ==
    <<queries[i][k].time, queries[i][k].collision>>
        = get_first_collision(i, queries[i][k].circle, queries[i][k].direction,
                              seen, static_objects)

\* the pass run on the same entities in the other order of the query
OtherOrder ==
    collision_system(<<previous[2], previous[1]>>, static_objects, delta_seconds)

\* C26: collision_system resolves the movables one after the other and in
\* place: each entity is left where its sub-steps took it, and every query
\* of an entity is answered with the entities before it in the query where
\* the pass has left them and the entities after it where they were at the
\* start of the tick.
C26_SequentialInPlace ==
    AfterPass =>
        \A i \in 1..Len(movables) :
            /\ MovedInPlace(i)
            /\ \A k \in 1..Len(queries[i]) : ResultAmong(i, k, SeenBy(i))

\* two entities that approach each other: the second of the query is stopped
\* at time 0 by the first, which has moved; had it been tested against the
\* first where that was at the start of the tick it would have moved; and
\* the same tick in the other order of the query ends with both entities
\* somewhere else
C26_Witness ==
    /\ AfterPass
    /\ Len(movables) = 2
    /\ movables[1].position # previous[1].position
    /\ queries[2] # <<>>
    /\ queries[2][1].time = Zero
    /\ queries[2][1].collision = WithCircle(BoundOf(1))
    /\ ~ResultAmong(2, 1, previous)
    /\ OtherOrder.exact
    /\ OtherOrder.movables[2].position # movables[1].position
    /\ OtherOrder.movables[1].position # movables[2].position

(***************************************************************************)
(* The order of the candidates of get_first_collision                      *)
(***************************************************************************)
\* the tests of the segments of one mesh collider from segment j on, in
\* iteration order: per segment the line, then the endpoint tests
RECURSIVE ChainOfLines(_, _)
ChainOfLines(lines, j) ==
    IF j > Len(lines) THEN <<>>
    ELSE Candidate(penetration_time_circle_line(call.circle, lines[j], call.direction),
                   WithLineSegment(lines[j]))
         \o Candidate(penetration_time_circle_point(call.circle, lines[j].a,
                                                    call.direction),
                      WithPoint(lines[j].a))
         \o ChainOfLines(lines, j + 1)

\* the tests of the static objects from object i on
RECURSIVE ChainOfStatics(_)
ChainOfStatics(i) ==
    IF i > Len(static_objects) THEN <<>>
    ELSE ChainOfLines(static_objects[i].lines, 1) \o ChainOfStatics(i + 1)

\* the tests of the other movables from index i on
RECURSIVE ChainOfOthers(_)
ChainOfOthers(i) ==
    IF i > Len(movables) THEN <<>>
    ELSE IF i = call.movable_index THEN ChainOfOthers(i + 1)
    ELSE Candidate(penetration_time_circle_circle(call.circle, call.direction,
                                                  BoundOf(i)),
                   WithCircle(BoundOf(i)))
         \o ChainOfOthers(i + 1)

\* all candidates in iteration order: static, dynamic, (1.0, None)
WholeChain == ChainOfStatics(1) \o ChainOfOthers(1) \o << <<One, CollisionNone>> >>

\* ret is the first of the candidates of chain with the least time
FirstOfLeast(chain) ==
    \E k \in 1..Len(chain) :
        /\ ret = chain[k]
        /\ \A j \in 1..Len(chain) :
               IF j < k THEN Gt(chain[j][1], ret[1]) ELSE Ge(chain[j][1], ret[1])

\* C27: among the candidates with the least time get_first_collision returns
\* the first in iteration order: the candidates of the static mesh
\* colliders (per segment the line, then the endpoint tests), then the
\* other movables, then (1.0, None); so a collision found at exactly time
\* 1.0 is returned in place of Collision::None.
C27_FirstOfTies ==
    FirstReturned =>
        /\ FirstOfLeast(WholeChain)
        /\ (\E k \in 1..(Len(WholeChain) - 1) : Eq(WholeChain[k][1], One))
               => ret[2].kind # "None"

\* a segment and another movable are met at the same time, before 1.0: the
\* segment is returned
C27_Witness ==
    /\ FirstReturned
    /\ ret[2].kind = "WithLineSegment"
    /\ Lt(ret[1], One)
    /\ \E k \in 1..Len(WholeChain) :
           /\ WholeChain[k][2].kind = "WithCircle"
           /\ Eq(WholeChain[k][1], ret[1])

\* another movable is met at exactly 1.0 and nothing earlier: it is returned
\* in place of Collision::None
C27_UnitTimeWitness ==
    /\ FirstReturned
    /\ ret[1] = One
    /\ ret[2].kind = "WithCircle"

\* a segment and its first end are met at the same time: the segment is
\* returned
C27_SegmentWitness ==
    /\ FirstReturned
    /\ ret[2].kind = "WithLineSegment"
    /\ \E k \in 1..Len(WholeChain) :
           /\ WholeChain[k][2].kind = "WithPoint"
           /\ Eq(WholeChain[k][1], ret[1])

(***************************************************************************)
(* The static segments a pass must not go through                          *)
(***************************************************************************)
\* the segments of all static objects of the world
StaticSegments ==
    UNION { {static_objects[i].lines[j] : j \in 1..Len(static_objects[i].lines)} :
              i \in 1..Len(static_objects) }

\* the circle of radius r at p does not overlap segment s: it is clear of it
\* or touches it
ClearOf(p, r, s) == Ge(SegmentDist2(p, s), Square(r))

\* the straight path from p to q goes through segment s: its ends are
\* strictly on the two sides of the line of s and the ends of s strictly on
\* the two sides of the line of the path
GoesThrough(p, q, s) ==
    /\ Sign(cross_2d(VSub(p, s.a), direction_of(s))) # 0
    /\ Sign(cross_2d(VSub(q, s.a), direction_of(s)))
           = -Sign(cross_2d(VSub(p, s.a), direction_of(s)))
    /\ Sign(cross_2d(VSub(s.a, p), VSub(q, p))) # 0
    /\ Sign(cross_2d(VSub(s.b, p), VSub(q, p)))
           = -Sign(cross_2d(VSub(s.a, p), VSub(q, p)))

\* movable i did not overlap a static segment when the pass began
StartedClear(i) ==
    \A s \in StaticSegments : ClearOf(xz(previous[i].position), previous[i].radius, s)

\* C28: a movable circle that overlaps no static segment at the start of a
\* tick overlaps none after collision_system (its center is at distance
\* >= radius from every static segment), and no sub-step of the pass has
\* taken its center through a static segment.
C28_NoTunnelling ==
    AfterPass =>
        \A i \in 1..Len(movables) :
            StartedClear(i) =>
                \A s \in StaticSegments :
                    /\ ClearOf(xz(movables[i].position), movables[i].radius, s)
                    /\ \A k \in 1..Len(queries[i]) :
                           ~GoesThrough(xz(queries[i][k].position),
                                        xz(queries[i][k].reached), s)

(***************************************************************************)
(* Properties of the waves                                                 *)
(***************************************************************************)
InGame == app_state # "None" /\ current_spawning_data # <<>>

\* C29: in every reachable state number_of_spawned_enemies is at most the
\* enemy_count of the current wave, also after a restart from Win or Loss
\* has set the stage back to Wave1.
C29_SpawnedWithinCount ==
    InGame =>
        current_spawning_data.number_of_spawned_enemies
            <= wave_datas[gameplay_stage].enemy_count

\* the rest of C29: the stage after Wave1, Wave2 and Win after Wave3 are set
\* only by a run of system_enemy_spawning that finds all enemies of the wave
\* spawned and none alive
C29_AdvanceOnlyWhenDone ==
    [][(InGame /\ (\/ /\ next_gameplay_stage' # next_gameplay_stage
                      /\ next_gameplay_stage' \in {<<"Wave2">>, <<"Wave3">>}
                   \/ /\ next_app_state' # next_app_state
                      /\ next_app_state' = <<"Win">>))
          => /\ current_spawning_data.number_of_spawned_enemies
                    = wave_datas[gameplay_stage].enemy_count
             /\ live_enemies = 0
             /\ current_spawning_data'.number_of_spawned_enemies = 0]_vars

(***************************************************************************)
(* Properties of the gun                                                   *)
(***************************************************************************)
HasGun == gun # <<>>

\* system_player_shooting runs in this step
Shooting == "system_player_shooting" \in systems_ran' \ systems_ran

\* number_of_loaded_bullets is within [0, magazine_size]
C30_BulletsWithinMagazine ==
    HasGun => gun.number_of_loaded_bullets \in 0..gun.magazine_size

\* a GunFire is sent only from ReadyToFire with a bullet loaded, and takes
\* exactly one bullet
C30_FireTakesOneBullet ==
    [][(HasGun /\ Shooting /\ gun_event' = "GunFire")
          => /\ gun.gun_state.kind = "ReadyToFire"
             /\ gun.number_of_loaded_bullets >= 1
             /\ gun'.number_of_loaded_bullets = gun.number_of_loaded_bullets - 1]_vars

\* after a shot or a reload the gun is not in ReadyToFire, and it comes back
\* to it only in a run of system_gun_update in which its timer finishes
C30_ReadyOnlyByTimer ==
    [][HasGun =>
          /\ (Shooting /\ gun_event' # "None") => gun'.gun_state.kind # "ReadyToFire"
          /\ (gun.gun_state.kind # "ReadyToFire" /\ gun'.gun_state.kind = "ReadyToFire")
                 => /\ "system_gun_update" \in systems_ran' \ systems_ran
                    /\ gun.gun_state.timer.elapsed + time_delta
                           >= gun.gun_state.timer.duration]_vars

\* when the gun comes back to ReadyToFire from Reloading the magazine is full
C30_ReloadedIsFull ==
    [][(HasGun /\ gun.gun_state.kind = "Reloading"
               /\ gun'.gun_state.kind = "ReadyToFire")
          => gun'.number_of_loaded_bullets = gun'.magazine_size]_vars

\* C30: number_of_loaded_bullets is always within [0, magazine_size]; a
\* GunFire is sent only when the gun is in ReadyToFire with at least one
\* bullet loaded, and takes exactly one; after every shot or reload the gun
\* leaves ReadyToFire and comes back only when its timer has finished; and
\* whenever it comes back to ReadyToFire from Reloading the magazine is full.
C30_GunStateMachine ==
    /\ []C30_BulletsWithinMagazine
    /\ C30_FireTakesOneBullet
    /\ C30_ReadyOnlyByTimer
    /\ C30_ReloadedIsFull

====
